---- MODULE Spec2Model ----
(***************************************************************************)
(* State-machine model of the brochure editor's client-side editing state  *)
(* (src/Dockerfile holds the editor script after the container recipe;     *)
(* src/frontend/elements_library.js holds the element library):            *)
(* EditorState, the clipboard, the undo/redo history, the page DOM, the    *)
(* pending timers and the session save requests.                           *)
(*                                                                         *)
(* Every handler of the script is a pure operator from a "world" record    *)
(* (one field per variable) to the world after the handler has returned;   *)
(* an action applies one handler to the current world.                     *)
(***************************************************************************)
EXTENDS Integers, Sequences, FiniteSets, TLC

\* ------------------------------------------------------------------ bounds
\* EditorState.maxHistorySize is 50 in the source; the model keeps the same
\* code with a smaller stack so that eviction happens within the bounds.
maxHistorySize == 3
\* Pages of the loaded session, and the most pages the document may hold.
InitPages == 2
MaxPages == 3
\* The most design-element ids ever generated.
MaxElementIds == 2
\* Editable text of a page is one of 0..MaxContent.
MaxContent == 1
\* The most timeouts pending at once, and the most PUTs in flight at once.
MaxTimers == 2
MaxInFlight == 2
\* The most events (user gestures, auto-save ticks) in one run.
MaxOps == 4
\* The most auto-save intervals running at once.
MaxIntervals == 2
\* The design elements on the canvas the smart guides are initialised for.
MaxSnapElements == 2

\* Pixel values of the source.
DefaultOffset == 20
DuplicateOffset == 30
FallbackLeft == 50
NudgeStep == 1
NudgeShiftStep == 10
DropMin == 10
\* (page.offsetWidth / 2) - 50 for a page 794 px wide
CenterX == 347

PageIds == 1..MaxPages
ElementIds == 1..MaxElementIds
Contents == 0..MaxContent

\* ------------------------------------------------------------- variables
VARIABLES
    loadState,              \* "init" | "ready" | "failed": how far loading got
    loadPhase,              \* what the running loadSession() awaits: "idle" (none is
                            \* running) | "fetching" | "generating"
    loadingOverlay,         \* #loadingOverlay is visible
    generation,             \* per page id, the generation request of the running
                            \* generateAllPageDescriptions(): how many were issued,
                            \* the page's type and the outcome
    sessionPages,           \* EditorState.sessionData.pages
    currentPage,            \* EditorState.currentPage (0: null)
    selectedElement,        \* EditorState.selectedElement (<<>>: null)
    selectedElements,       \* EditorState.selectedElements
    isDirty,                \* EditorState.isDirty
    pageDescriptions,       \* EditorState.pageDescriptions ("": no entry)
    loadedFromWindowOpener, \* EditorState.loadedFromWindowOpener
    isDemoMode,             \* EditorState.isDemoMode
    errorModal,             \* #errorModal is visible
    history,                \* EditorState.history
    historyIndex,           \* EditorState.historyIndex (0-based, -1: empty)
    isUndoRedo,             \* EditorState.isUndoRedo
    elements,               \* EditorState.elements
    dom,                    \* the .brochure-page elements, in document order
    clipboardData,          \* clipboardData (<<>>: null)
    timers,                 \* pending setTimeout callbacks, oldest first
    inflight,               \* PUT requests awaiting their response
    exportRequest,          \* the body of the last POST to /export/brochure-pdf (<<>>: none)
    persisted,              \* the document the backend last stored
    intervals,              \* handles of the running setInterval timers
    autoSaveInterval,       \* EditorState.autoSaveInterval (0: null)
    nextElementId,          \* ids handed out so far + 1
    nextPageId,             \* page ids handed out so far + 1
    lastOp,                 \* the handler that ran last and what it returned
    pristine,               \* no undo() or redo() has restored a snapshot yet
    handedOff,              \* a load through the opener window's handoff has completed
    tornDown,               \* the unload listener has run
    skipInvoked,            \* the user has invoked skip-generation
    opCount,                \* events so far
    smartGuides,            \* the state of the SmartGuides module: CONFIG,
                            \* activeElement (0: null), canvas (set or null), isEnabled
    snapCanvas,             \* the design elements of the canvas given to
                            \* SmartGuides.init(), with their boxes
    snapCall,               \* the last call of calculateSnap: its arguments, the
                            \* activeElement it found and what it returned
    roundTrip,              \* a page with its title and content fields, the editable
                            \* regions rendered for it and how often they were read
                            \* back (<<>>: no page rendered)
    layoutState             \* the layout picker: the current page, the page the
                            \* picker's controls name, the three preference maps,
                            \* what each page on the canvas shows, the last choice

\* The variables of the editor script.
editorVars == <<loadState, loadPhase, loadingOverlay, generation, sessionPages, currentPage, selectedElement, selectedElements,
          isDirty, pageDescriptions, loadedFromWindowOpener, isDemoMode, errorModal,
          history, historyIndex, isUndoRedo, elements, dom, clipboardData, timers, inflight, exportRequest, persisted,
          intervals, autoSaveInterval, nextElementId, nextPageId, lastOp, pristine, handedOff,
          tornDown, skipInvoked, opCount>>

\* The variables of the smart guides.
snapVars == <<smartGuides, snapCanvas, snapCall>>

vars == <<editorVars, snapVars, roundTrip, layoutState>>

\* The current world: one field per variable a handler may read or write,
\* and what the handler reports: whether it succeeded (ok), the notice it
\* showed, the snapshots it pushed, whether a push evicted an entry and
\* whether an export request was sent, and for a load the sources it found
\* available, consulted and used.
World ==
    [loadPhase |-> loadPhase, loadingOverlay |-> loadingOverlay, generation |-> generation,
     sessionPages |-> sessionPages, currentPage |-> currentPage,
     selectedElement |-> selectedElement, selectedElements |-> selectedElements,
     isDirty |-> isDirty, pageDescriptions |-> pageDescriptions,
     loadedFromWindowOpener |-> loadedFromWindowOpener, isDemoMode |-> isDemoMode,
     errorModal |-> errorModal,
     history |-> history, historyIndex |-> historyIndex, isUndoRedo |-> isUndoRedo,
     elements |-> elements, dom |-> dom, clipboardData |-> clipboardData,
     timers |-> timers, inflight |-> inflight, exportRequest |-> exportRequest,
     persisted |-> persisted,
     intervals |-> intervals, autoSaveInterval |-> autoSaveInterval,
     nextElementId |-> nextElementId, nextPageId |-> nextPageId,
     pushes |-> 0, evicted |-> FALSE, exported |-> FALSE, load |-> <<>>,
     notice |-> "", ok |-> TRUE]

\* The next state is world w.
Becomes(w) ==
    /\ loadPhase' = w.loadPhase
    /\ loadingOverlay' = w.loadingOverlay
    /\ generation' = w.generation
    /\ sessionPages' = w.sessionPages
    /\ currentPage' = w.currentPage
    /\ selectedElement' = w.selectedElement
    /\ selectedElements' = w.selectedElements
    /\ isDirty' = w.isDirty
    /\ pageDescriptions' = w.pageDescriptions
    /\ loadedFromWindowOpener' = w.loadedFromWindowOpener
    /\ isDemoMode' = w.isDemoMode
    /\ errorModal' = w.errorModal
    /\ history' = w.history
    /\ historyIndex' = w.historyIndex
    /\ isUndoRedo' = w.isUndoRedo
    /\ elements' = w.elements
    /\ dom' = w.dom
    /\ clipboardData' = w.clipboardData
    /\ timers' = w.timers
    /\ inflight' = w.inflight
    /\ exportRequest' = w.exportRequest
    /\ persisted' = w.persisted
    /\ intervals' = w.intervals
    /\ autoSaveInterval' = w.autoSaveInterval
    /\ nextElementId' = w.nextElementId
    /\ nextPageId' = w.nextPageId

\* ----------------------------------------------------------------- helpers
\* The entry of `generation` for a page no request was issued for.
NoRequest == [requests |-> 0, type |-> "", outcome |-> "none"]

SeqFilter(s, Keep(_)) ==
    LET F[i \in 0..Len(s)] ==
            IF i = 0 THEN <<>>
            ELSE IF Keep(s[i]) THEN Append(F[i - 1], s[i]) ELSE F[i - 1]
    IN F[Len(s)]

SeqMap(s, f(_)) == [i \in 1..Len(s) |-> f(s[i])]

\* Index of the first .brochure-page whose data-page-id is p (0: none).
DomIndexOf(d, p) ==
    IF \E i \in 1..Len(d) : d[i].pageId = p
    THEN CHOOSE i \in 1..Len(d) : d[i].pageId = p /\ \A j \in 1..(i - 1) : d[j].pageId # p
    ELSE 0

\* Index of the first session page whose id is p (0: none).
PageIndexOf(pages, p) ==
    IF \E i \in 1..Len(pages) : pages[i].id = p
    THEN CHOOSE i \in 1..Len(pages) : pages[i].id = p /\ \A j \in 1..(i - 1) : pages[j].id # p
    ELSE 0

\* The design-element node with id e is attached to some page of d.
Attached(d, e) == \E i \in 1..Len(d) : \E k \in 1..Len(d[i].nodes) : d[i].nodes[k].id = e

\* JSON.parse(JSON.stringify(x)) of the elements map: a DOM node held in an
\* entry's element field has no enumerable own property and comes back as {}.
JsonCloneEntry(el) == [el EXCEPT !.element = IF @ = "node" THEN "obj" ELSE @]

JsonCloneElements(els) == [p \in DOMAIN els |-> SeqMap(els[p], JsonCloneEntry)]

\* --------------------------------------------------------- page rendering
\* selectPage(pageId): the page becomes current when it is in the DOM.
selectPage(w, pageId) ==
    IF DomIndexOf(w.dom, pageId) # 0 THEN [w EXCEPT !.currentPage = pageId] ELSE w

\* A node reference held by the selection stays valid but its node is no
\* longer in the document.
DetachSelection(w) ==
    [w EXCEPT !.selectedElement = SeqMap(@, LAMBDA n : [n EXCEPT !.live = FALSE]),
              !.selectedElements = SeqMap(@, LAMBDA n : [n EXCEPT !.live = FALSE])]

\* renderPages(): the canvas is rebuilt from sessionData.pages and the first
\* page is selected.
renderPages(w) ==
    LET d == [i \in 1..Len(w.sessionPages) |->
                 [pageId |-> w.sessionPages[i].id,
                  content |-> w.sessionPages[i].content,
                  nodes |-> <<>>]]
        w1 == [DetachSelection(w) EXCEPT !.dom = d]
    IN IF Len(w.sessionPages) > 0 THEN selectPage(w1, w.sessionPages[1].id) ELSE w1

\* ElementDrag.renderElementOnCanvas(elementData, pageId): a node for the
\* entry is appended to the page's canvas at the entry's position; the node
\* carries the entry's own lock flag, which no handler of the editor script
\* ever sets.
renderElementOnCanvas(d, el, pageId) ==
    LET i == DomIndexOf(d, pageId)
    IN IF i = 0 THEN d
       ELSE [d EXCEPT ![i].nodes = Append(@, [id |-> el.id, locked |-> FALSE, left |-> el.x])]

\* rerenderDesignElements(): every design element leaves the DOM and one node
\* per entry of EditorState.elements is rendered on its page.
rerenderDesignElements(w) ==
    LET cleared == [i \in 1..Len(w.dom) |-> [w.dom[i] EXCEPT !.nodes = <<>>]]
        RenderPage[p \in 0..MaxPages] ==
            IF p = 0 THEN cleared
            ELSE LET RenderEntry[k \in 0..Len(w.elements[p])] ==
                         IF k = 0 THEN RenderPage[p - 1]
                         ELSE renderElementOnCanvas(RenderEntry[k - 1], w.elements[p][k], p)
                 IN RenderEntry[Len(w.elements[p])]
    IN [DetachSelection(w) EXCEPT !.dom = RenderPage[MaxPages]]

\* ------------------------------------------------------- undo/redo system
\* The fields of a snapshot that can be the live object of EditorState
\* instead of a copy of it.
SharableFields == {"sessionPages", "pageDescriptions", "elements"}

\* (a captureEditorState that stores EditorState.elements itself)
captureEditorState_SharesElements(w) ==
    [pages |-> [i \in 1..Len(w.dom) |-> [content |-> w.dom[i].content, nodes |-> w.dom[i].nodes]],
     sessionPages |-> w.sessionPages,
     currentPage |-> w.currentPage,
     pageDescriptions |-> w.pageDescriptions,
     elements |-> w.elements,
     live |-> {"elements"}]

\* captureEditorState(): innerHTML of each page by index, and copies of the
\* session pages, the current page, the descriptions and the elements map.
\* Each of the three is JSON.parse(JSON.stringify(...)) of the live object,
\* so no field of the snapshot is the live object (live is empty).
captureEditorState(w) ==
    [pages |-> [i \in 1..Len(w.dom) |-> [content |-> w.dom[i].content, nodes |-> w.dom[i].nodes]],
     sessionPages |-> w.sessionPages,
     currentPage |-> w.currentPage,
     pageDescriptions |-> w.pageDescriptions,
     elements |-> JsonCloneElements(w.elements),
     live |-> {}]

\* EditorState.<field> = <a new object>: the snapshots that held the old
\* live object keep it, and it is live no more.
AssignFresh(w, fields) ==
    [w EXCEPT !.history = SeqMap(@, LAMBDA h : [h EXCEPT !.state.live = @ \ fields])]

\* A write to a live object is a write to every snapshot field that is that
\* object.
WriteThrough(w) ==
    [w EXCEPT !.history = SeqMap(@, LAMBDA h :
        [h EXCEPT !.state.sessionPages =
                      IF "sessionPages" \in h.state.live THEN w.sessionPages ELSE @,
                  !.state.pageDescriptions =
                      IF "pageDescriptions" \in h.state.live THEN w.pageDescriptions ELSE @,
                  !.state.elements =
                      IF "elements" \in h.state.live THEN w.elements ELSE @])]

\* saveToHistory(actionName)
\* saveToHistory without the size bound: nothing is evicted.
saveToHistory_NoEviction(w, actionName) ==
    IF w.isUndoRedo THEN w
    ELSE LET kept == SubSeq(w.history, 1, w.historyIndex + 1)
         IN [w EXCEPT !.history = Append(kept, [action |-> actionName,
                                                state |-> captureEditorState(w)]),
                      !.historyIndex = @ + 1,
                      !.pushes = @ + 1]

\* saveToHistory without the truncation of the entries past the index.
saveToHistory_NoTruncation(w, actionName) ==
    IF w.isUndoRedo THEN w
    ELSE LET pushed == Append(w.history, [action |-> actionName,
                                          state |-> captureEditorState(w)])
         IN IF Len(pushed) > maxHistorySize
            THEN [w EXCEPT !.history = Tail(pushed), !.pushes = @ + 1, !.evicted = TRUE]
            ELSE [w EXCEPT !.history = pushed, !.historyIndex = @ + 1, !.pushes = @ + 1]

saveToHistory(w, actionName) ==
    IF w.isUndoRedo THEN w
    ELSE LET kept == IF w.historyIndex < Len(w.history) - 1
                     THEN SubSeq(w.history, 1, w.historyIndex + 1)
                     ELSE w.history
             pushed == Append(kept, [action |-> actionName, state |-> captureEditorState(w)])
         IN IF Len(pushed) > maxHistorySize
            THEN [w EXCEPT !.history = Tail(pushed), !.pushes = @ + 1, !.evicted = TRUE]
            ELSE [w EXCEPT !.history = pushed, !.historyIndex = @ + 1, !.pushes = @ + 1]

\* setTimeout(callback, delay)
setTimeout(w, kind, delay, arg) ==
    [w EXCEPT !.timers = Append(@, [kind |-> kind, delay |-> delay, arg |-> arg])]

\* restoreEditorState(snapshot)
restoreEditorState(w, snapshot) ==
    LET w1 == [AssignFresh(w, {"elements", "pageDescriptions"}) EXCEPT
                  !.isUndoRedo = TRUE,
                  !.elements = JsonCloneElements(snapshot.elements)]
    IN IF Len(w.sessionPages) # Len(snapshot.sessionPages)
       THEN \* pages were added or removed: re-render everything
            LET w2 == renderPages([AssignFresh(w1, {"sessionPages"}) EXCEPT
                                      !.sessionPages = snapshot.sessionPages])
                w3 == rerenderDesignElements(
                          [w2 EXCEPT !.pageDescriptions = snapshot.pageDescriptions])
            IN IF snapshot.currentPage # 0
               THEN setTimeout(w3, "settleSelect", 200, snapshot.currentPage)
               ELSE [w3 EXCEPT !.isUndoRedo = FALSE]
       ELSE \* same page count: put each page's innerHTML back, by index
            LET d == [i \in 1..Len(w1.dom) |->
                         IF i <= Len(snapshot.pages)
                         THEN [w1.dom[i] EXCEPT !.content = snapshot.pages[i].content,
                                                !.nodes = snapshot.pages[i].nodes]
                         ELSE w1.dom[i]]
                w2 == rerenderDesignElements(
                          [DetachSelection(w1) EXCEPT
                              !.dom = d, !.pageDescriptions = snapshot.pageDescriptions])
            IN setTimeout(w2, "settle", 100, 0)

\* (an undo() whose boundary check is off by one: at index 0 the entry at
\* the index is restored again)
undo_BoundaryOffByOne(w) ==
    IF w.historyIndex < 0 \/ Len(w.history) = 0
    THEN [w EXCEPT !.notice = "Nothing to undo", !.ok = FALSE]
    ELSE LET w1 == [w EXCEPT !.historyIndex = IF @ > 0 THEN @ - 1 ELSE @]
         IN [restoreEditorState(w1, w1.history[w1.historyIndex + 1].state)
                EXCEPT !.notice = "Undone"]

\* undo()
undo(w) ==
    IF w.historyIndex <= 0
    THEN [w EXCEPT !.notice = "Nothing to undo", !.ok = FALSE]
    ELSE LET w1 == [w EXCEPT !.historyIndex = @ - 1]
         IN [restoreEditorState(w1, w1.history[w1.historyIndex + 1].state)
                EXCEPT !.notice = "Undone"]

\* redo()
redo(w) ==
    IF w.historyIndex >= Len(w.history) - 1
    THEN [w EXCEPT !.notice = "Nothing to redo", !.ok = FALSE]
    ELSE LET w1 == [w EXCEPT !.historyIndex = @ + 1]
         IN [restoreEditorState(w1, w1.history[w1.historyIndex + 1].state)
                EXCEPT !.notice = "Redone"]

\* (a deferred callback that selects the page and leaves the flag as it is)
settleSelectCallback_FlagKept(w, pageId) == selectPage(w, pageId)

\* The deferred callbacks of restoreEditorState.
settleCallback(w) == [w EXCEPT !.isUndoRedo = FALSE]

settleSelectCallback(w, pageId) == [selectPage(w, pageId) EXCEPT !.isUndoRedo = FALSE]

\* ------------------------------------------------- clipboard and elements
\* selected = EditorState.selectedElement || EditorState.selectedElements[0]
Selected(w) ==
    IF w.selectedElement # <<>> THEN w.selectedElement
    ELSE IF w.selectedElements # <<>> THEN <<w.selectedElements[1]>>
    ELSE <<>>

\* markDirty()
markDirty(w) == [w EXCEPT !.isDirty = TRUE]

\* selectElement(element); element is <<>> for null.
selectElement(w, element) ==
    [w EXCEPT !.selectedElement = element, !.selectedElements = element]

\* Assigning through a node reference changes the node in the document when
\* the node is attached.
SetNodeLocked(d, e, v) ==
    [i \in 1..Len(d) |->
        [d[i] EXCEPT !.nodes = SeqMap(@, LAMBDA n : IF n.id = e THEN [n EXCEPT !.locked = v] ELSE n)]]

\* element.remove()
RemoveNode(d, e) ==
    [i \in 1..Len(d) |-> [d[i] EXCEPT !.nodes = SeqFilter(@, LAMBDA n : n.id # e)]]

\* copySelectedElement(): outerHTML keeps the node's attributes.
copySelectedElement(w) ==
    IF Selected(w) = <<>> THEN [w EXCEPT !.ok = FALSE]
    ELSE [w EXCEPT !.clipboardData = <<[locked |-> Selected(w)[1].locked,
                                        left |-> Selected(w)[1].left]>>,
                   !.notice = "Element copied"]

\* parseInt(style.left) || fallback: a left of 0px, like a missing one, is
\* falsy and gives the fallback.
ParseLeftOr(left, fallback) == IF left = 0 THEN fallback ELSE left

\* (a pasteElement that marks the document dirty before its checks)
pasteElement_DirtyFirst(w, offsetX) ==
    LET d == markDirty(w)
        i == DomIndexOf(w.dom, w.currentPage)
    IN IF w.clipboardData = <<>> \/ w.currentPage = 0 \/ i = 0 THEN [d EXCEPT !.ok = FALSE]
       ELSE LET node == [id |-> w.nextElementId, locked |-> w.clipboardData[1].locked,
                         left |-> ParseLeftOr(w.clipboardData[1].left, FallbackLeft) + offsetX]
                w1 == [d EXCEPT !.nextElementId = @ + 1,
                                !.dom[i].nodes = Append(@, node),
                                !.elements[w.currentPage] =
                                    Append(@, [id |-> node.id, element |-> "node", x |-> 0])]
            IN saveToHistory(selectElement(w1, <<node @@ [live |-> TRUE]>>),
                             "paste")

\* (a pasteElement that gives the clone the id handed out last)
pasteElement_ReusesId(w, offsetX) ==
    LET i == DomIndexOf(w.dom, w.currentPage)
    IN IF w.clipboardData = <<>> \/ w.currentPage = 0 \/ i = 0 THEN [w EXCEPT !.ok = FALSE]
       ELSE LET node == [id |-> w.nextElementId - 1, locked |-> w.clipboardData[1].locked,
                         left |-> ParseLeftOr(w.clipboardData[1].left, FallbackLeft) + offsetX]
                w1 == [w EXCEPT !.dom[i].nodes = Append(@, node),
                                !.elements[w.currentPage] =
                                    Append(@, [id |-> node.id, element |-> "node", x |-> 0])]
            IN markDirty(saveToHistory(
                   selectElement(w1, <<node @@ [live |-> TRUE]>>), "paste"))

\* pasteElement(offsetX, offsetY); the horizontal coordinate is modelled, the
\* vertical one is computed the same way.
pasteElement(w, offsetX) ==
    IF w.clipboardData = <<>> THEN [w EXCEPT !.notice = "Nothing to paste", !.ok = FALSE]
    ELSE IF w.currentPage = 0 THEN [w EXCEPT !.ok = FALSE]
    ELSE LET newId == w.nextElementId
             i == DomIndexOf(w.dom, w.currentPage)
             node == [id |-> newId, locked |-> w.clipboardData[1].locked,
                      left |-> ParseLeftOr(w.clipboardData[1].left, FallbackLeft) + offsetX]
         IN IF i = 0 THEN [w EXCEPT !.ok = FALSE]
            ELSE LET w1 == [w EXCEPT
                               !.nextElementId = @ + 1,
                               !.dom[i].nodes = Append(@, node),
                               !.elements[w.currentPage] =
                                   Append(@, [id |-> newId, element |-> "node", x |-> 0])]
                     w2 == selectElement(w1, <<[id |-> newId, locked |-> node.locked,
                                                left |-> node.left, live |-> TRUE]>>)
                 IN [markDirty(saveToHistory(w2, "paste")) EXCEPT !.notice = "Element pasted"]

\* duplicateElement()
duplicateElement(w) ==
    LET w1 == copySelectedElement(w)
    IN IF w1.ok THEN pasteElement(w1, DuplicateOffset) ELSE w1

\* deleteSelectedElement(), past its two early returns: the node leaves the
\* DOM, the entry with its id leaves the current page's list, the selection
\* is cleared and the change is recorded.
removeSelected(w) ==
    LET sel == Selected(w)[1]
        pageId == w.currentPage
        w1 == [w EXCEPT
                  !.dom = IF sel.live THEN RemoveNode(@, sel.id) ELSE @,
                  !.elements = IF pageId # 0
                               THEN [@ EXCEPT ![pageId] = SeqFilter(@, LAMBDA el : el.id # sel.id)]
                               ELSE @,
                  !.selectedElement = <<>>,
                  !.selectedElements = <<>>]
    IN [markDirty(saveToHistory(w1, "delete")) EXCEPT !.notice = "Element deleted"]

\* (a deleteSelectedElement that forgets the lock check)
deleteSelectedElement_NoLockCheck(w) ==
    IF Selected(w) = <<>> THEN [w EXCEPT !.ok = FALSE] ELSE removeSelected(w)

\* deleteSelectedElement()
deleteSelectedElement(w) ==
    IF Selected(w) = <<>> THEN [w EXCEPT !.ok = FALSE]
    ELSE IF Selected(w)[1].locked
    THEN [w EXCEPT !.notice = "Element is locked. Unlock it first to delete.", !.ok = FALSE]
    ELSE removeSelected(w)

\* toggleElementLock()
toggleElementLock(w) ==
    IF Selected(w) = <<>>
    THEN [w EXCEPT !.notice = "Select an element to lock/unlock", !.ok = FALSE]
    ELSE LET sel == Selected(w)[1]
             flipped == [sel EXCEPT !.locked = ~sel.locked]
             w1 == [w EXCEPT
                       !.dom = IF sel.live THEN SetNodeLocked(@, sel.id, ~sel.locked) ELSE @,
                       !.selectedElement = IF @ # <<>> THEN <<flipped>> ELSE @,
                       !.selectedElements = IF @ # <<>> THEN <<flipped>> ELSE @]
         IN markDirty(saveToHistory(w1, IF sel.locked THEN "unlock" ELSE "lock"))

\* Assigning style.left through a node reference.
SetNodeLeft(d, e, v) ==
    [i \in 1..Len(d) |->
        [d[i] EXCEPT !.nodes = SeqMap(@, LAMBDA n : IF n.id = e THEN [n EXCEPT !.left = v] ELSE n)]]

\* The keydown listener on ArrowLeft / ArrowRight (ArrowUp / ArrowDown do the
\* same to style.top): EditorState.selectedElement moves by step pixels, with
\* step negative for ArrowLeft, and the document is marked dirty.
arrowKeyNudge(w, step) ==
    IF w.selectedElement = <<>> THEN [w EXCEPT !.ok = FALSE]
    ELSE LET sel == w.selectedElement[1]
             moved == [sel EXCEPT !.left = ParseLeftOr(sel.left, 0) + step]
         IN markDirty([w EXCEPT
                          !.dom = IF sel.live THEN SetNodeLeft(@, sel.id, moved.left) ELSE @,
                          !.selectedElement = <<moved>>,
                          !.selectedElements = IF @ # <<>> THEN <<moved>> ELSE @])

\* parseInt(dataset.pageId, 10) is a number for the numeric ids of a loaded
\* session and NaN for the ids of the demo pages ('demo_cover', ...) and of
\* duplicated pages ('page_<time>_<random>').
IsNumericId(w, pageId) == ~w.isDemoMode /\ pageId <= InitPages

\* updateCurrentPageFromScroll(), with page `pageId` the most visible one:
\* currentPage becomes parseInt of its id; NaN is falsy like null (0).
updateCurrentPageFromScroll(w, pageId) ==
    LET parsed == IF IsNumericId(w, pageId) THEN pageId ELSE 0
    IN [w EXCEPT !.currentPage = parsed]

\* ElementDrag.addElementToPage(elementData, pageId): the entry joins the
\* page's list and its node is rendered on the page's canvas.
addElementToPage(w, el, pageId) ==
    [w EXCEPT !.elements[pageId] = Append(@, el),
              !.dom = renderElementOnCanvas(@, el, pageId)]

\* addElementAtPosition(pageId, elementType, shapeType, iconType, x, y): the
\* snapshot is taken, then the new entry is handed to ElementDrag and its
\* node is selected 50 ms later.
addElementAtPosition(w, pageId, x) ==
    LET el == [id |-> w.nextElementId, element |-> "none", x |-> x]
        w1 == saveToHistory([w EXCEPT !.nextElementId = @ + 1], "add element")
        w2 == addElementToPage(w1, el, pageId)
    IN [setTimeout(w2, "selectAdded", 50, el.id) EXCEPT !.notice = "Added"]

\* addElementToCurrentPage(elementType, shapeType, iconType)
addElementToCurrentPage(w) ==
    IF w.currentPage = 0 THEN [w EXCEPT !.notice = "Please select a page first", !.ok = FALSE]
    ELSE IF DomIndexOf(w.dom, w.currentPage) = 0 THEN [w EXCEPT !.ok = FALSE]
    ELSE addElementAtPosition(w, w.currentPage, CenterX)

\* handleCanvasDrop(e): a dragged library item is dropped on page `pageId`
\* (the first page when the drop is outside every page) at x, which is kept
\* at DropMin or more.
handleCanvasDrop(w, pageId, x) ==
    IF Len(w.dom) = 0 THEN [w EXCEPT !.ok = FALSE]
    ELSE addElementAtPosition(w, pageId, IF x < DropMin THEN DropMin ELSE x)

\* The deferred callback of addElementAtPosition.
selectAddedCallback(w, e) ==
    IF Attached(w.dom, e)
    THEN LET i == CHOOSE i \in 1..Len(w.dom) : \E k \in 1..Len(w.dom[i].nodes) : w.dom[i].nodes[k].id = e
             n == CHOOSE n \in {w.dom[i].nodes[k] : k \in 1..Len(w.dom[i].nodes)} : n.id = e
         IN selectElement(w, <<[id |-> e, locked |-> n.locked, left |-> n.left, live |-> TRUE]>>)
    ELSE w

\* ------------------------------------------------------ session lifecycle
\* updateSessionDataFromDOM(): each page's editable content is read back from
\* the page element carrying its id.
updateSessionDataFromDOM(w) ==
    [w EXCEPT !.sessionPages =
        SeqMap(@, LAMBDA pg :
            LET i == DomIndexOf(w.dom, pg.id)
            IN IF i = 0 THEN pg ELSE [pg EXCEPT !.content = w.dom[i].content])]

\* showError(title, message) / hideError()
showError(w) == [w EXCEPT !.errorModal = TRUE]

hideError(w) == [w EXCEPT !.errorModal = FALSE]

\* (a saveSession without the isDirty check)
saveSession_NoDirtyCheck(w) ==
    IF w.loadedFromWindowOpener
    THEN [w EXCEPT !.isDirty = FALSE, !.notice = "Changes tracked in memory"]
    ELSE [w EXCEPT !.inflight = Append(@, [body |-> w.sessionPages, thenExport |-> FALSE]),
                   !.notice = "Saving..."]

\* saveSession(), up to its fetch: the PUT carries the serialized session.
\* thenExport marks the request whose response an exportPDF() is awaiting.
saveSession(w) ==
    IF ~w.isDirty THEN [w EXCEPT !.notice = "No changes to save", !.ok = FALSE]
    ELSE IF w.loadedFromWindowOpener
    THEN [w EXCEPT !.isDirty = FALSE, !.notice = "Changes tracked in memory"]
    ELSE LET w1 == updateSessionDataFromDOM(w)
         IN [w1 EXCEPT !.inflight = Append(@, [body |-> w1.sessionPages, thenExport |-> FALSE]),
                       !.notice = "Saving..."]

\* exportPDF(), past the save: the request is built from sessionData.pages
\* (each page with its content) and posted.
sendExport(w) == [w EXCEPT !.exportRequest = w.sessionPages, !.exported = TRUE]

\* saveSession() has returned to the exportPDF() that awaited request r.
resumeExport(w, r) == IF r.thenExport THEN sendExport(w) ELSE w

\* saveSession(), after a 2xx response to request k.
saveSucceeded(w, k) ==
    resumeExport([w EXCEPT !.isDirty = FALSE,
                           !.persisted = w.inflight[k].body,
                           !.inflight = SubSeq(@, 1, k - 1) \o SubSeq(@, k + 1, Len(@)),
                           !.notice = "Changes saved successfully"],
                 w.inflight[k])

\* saveSession(), after a non-2xx response or a network error for request k.
saveFailed(w, k) ==
    resumeExport(showError([w EXCEPT !.inflight = SubSeq(@, 1, k - 1) \o SubSeq(@, k + 1, Len(@)),
                                     !.notice = "Failed to save changes", !.ok = FALSE]),
                 w.inflight[k])

\* The setInterval callback of startAutoSave().
autoSaveTick(w) == IF w.isDirty THEN saveSession(w) ELSE w

\* exportPDF(): the session is saved first when dirty, and the export request
\* is sent when saveSession() has returned: at once when it made no request,
\* after the response to its PUT otherwise.
exportPDF(w) ==
    IF ~w.isDirty THEN sendExport(w)
    ELSE LET w1 == saveSession(w)
             n == Len(w1.inflight)
         IN IF n > Len(w.inflight)
            THEN [w1 EXCEPT !.inflight[n].thenExport = TRUE]
            ELSE sendExport(w1)

\* The input listener of an editable region: the user typed, the region's
\* content is now c.
editableInput(w, i, c) == [w EXCEPT !.dom[i].content = c, !.isDirty = TRUE]

\* startAutoSave(): a new interval timer runs and its handle is stored.
startAutoSave(w) ==
    LET h == Cardinality(w.intervals) + 1
    IN [w EXCEPT !.intervals = @ \cup {h}, !.autoSaveInterval = h]

\* stopAutoSave()
stopAutoSave(w) ==
    IF w.autoSaveInterval # 0
    THEN [w EXCEPT !.intervals = @ \ {w.autoSaveInterval}, !.autoSaveInterval = 0]
    ELSE w

\* The session a load delivers when it was saved by the editor before:
\* InitPages pages with their stored content, a cover and content pages that
\* carry their description (description is "existing" for a description of
\* more than 50 characters and "" for a shorter or missing one).
LoadedPages ==
    [i \in 1..InitPages |->
        [id |-> i, content |-> 0,
         type |-> IF i = 1 THEN "cover" ELSE "kitchen",
         description |-> IF i = 1 THEN "" ELSE "existing"]]

\* The types of a page; a cover page takes no description.
PageTypes == {"cover", "kitchen", "garden"}

\* What a load can find stored for the session: InitPages pages, each of
\* some type, a content page with a description of more than 50 characters
\* ("existing"), with one of at most 50 characters ("short") or with none.
Sessions ==
    {[i \in 1..InitPages |->
         [id |-> i, content |-> 0, type |-> t[i],
          description |-> IF t[i] = "cover" THEN "" ELSE d[i]]] :
       t \in [1..InitPages -> PageTypes], d \in [1..InitPages -> {"", "short", "existing"}]}

\* getDefaultDescription(pageType)
getDefaultDescription(pageType) ==
    CASE pageType = "kitchen" -> "default kitchen"
      [] pageType = "garden" -> "default garden"
      [] OTHER -> "default"

\* showLoading(visible)
showLoading(w, visible) == [w EXCEPT !.loadingOverlay = visible]

\* clearTimeout(handle) of the pending timeout of the kind named.
clearTimeout(w, kind) == [w EXCEPT !.timers = SeqFilter(@, LAMBDA t : t.kind # kind)]

\* forceCloseLoadingModal(): the overlay is closed and the editor announces
\* itself ready; nothing is loaded or rendered.
forceCloseLoadingModal(w) ==
    [showLoading(w, FALSE) EXCEPT
        !.notice = "Brochure loaded (some AI content may use defaults)"]

\* The sources loadSession() tries, in this order: the opener window's
\* handoff, the local cache, the backend.
Sources == {"opener", "cache", "backend"}

\* (a source selection that looks in the local cache first)
trySources_CacheFirst(avail) ==
    IF avail["cache"] THEN [used |-> "cache", consulted |-> {"cache"}]
    ELSE IF avail["opener"] THEN [used |-> "opener", consulted |-> {"opener", "cache"}]
    ELSE IF avail["backend"] THEN [used |-> "backend", consulted |-> Sources]
    ELSE [used |-> "none", consulted |-> Sources]

\* The source selection of loadSession(): avail tells, per source, whether
\* it yields data (the opener holds data for this session id, the cache has
\* an item under the session's key, the backend answers 2xx). The result
\* names the source used and the sources looked at.
trySources(avail) ==
    IF avail["opener"] THEN [used |-> "opener", consulted |-> {"opener"}]
    ELSE IF avail["cache"] THEN [used |-> "cache", consulted |-> {"opener", "cache"}]
    ELSE IF avail["backend"] THEN [used |-> "backend", consulted |-> Sources]
    ELSE [used |-> "none", consulted |-> Sources]

\* loadSession(), its first lines: the overlay is shown and the 120 s safety
\* timeout is set.
loadSessionStart(w) == setTimeout(showLoading(w, TRUE), "loadingTimeout", 120000, 0)

\* What loadSession() reports about its sources.
LoadReport(avail) ==
    <<[available |-> avail, used |-> trySources(avail).used,
       consulted |-> trySources(avail).consulted]>>

\* loadSession(), its catch block.
loadSessionFailed(w) ==
    [showLoading(clearTimeout(showError(w), "loadingTimeout"), FALSE) EXCEPT
        !.loadPhase = "idle", !.notice = "Failed to load brochure", !.ok = FALSE]

\* loadSession() past generateAllPageDescriptions(): the pages are rendered,
\* the initial snapshot is deferred, auto-save is started, the safety timeout
\* is cleared and the overlay closed.
loadSessionFinish(w) ==
    LET w1 == startAutoSave(setTimeout(renderPages(w), "initialSnapshot", 100, 0))
    IN [showLoading(clearTimeout(w1, "loadingTimeout"), FALSE) EXCEPT !.loadPhase = "idle"]

\* The pages whose generation request has not been answered.
Pending(w) == {p \in PageIds : w.generation[p].outcome = "pending"}

\* generateAllPageDescriptions(), up to its await: the map is emptied, a
\* content page with a description of its own gets it, and one request is
\* issued for every other content page.
generateAllPageDescriptions(w) ==
    LET Page(p) == w.sessionPages[PageIndexOf(w.sessionPages, p)]
        IsContent(p) == PageIndexOf(w.sessionPages, p) # 0 /\ Page(p).type # "cover"
    IN [AssignFresh(w, {"pageDescriptions"}) EXCEPT
           !.pageDescriptions =
               [p \in PageIds |->
                   IF IsContent(p) /\ Page(p).description = "existing" THEN "existing" ELSE ""],
           !.generation =
               [p \in PageIds |->
                   IF IsContent(p) /\ Page(p).description # "existing"
                   THEN [requests |-> 1, type |-> Page(p).type, outcome |-> "pending"]
                   ELSE NoRequest]]

\* (a continuation that writes nothing when the request failed)
generationResolved_NoFallback(w, p, outcome) ==
    LET w1 == [w EXCEPT !.pageDescriptions[p] = IF outcome = "text" THEN "generated" ELSE @,
                        !.generation[p].outcome = outcome]
    IN IF Pending(w1) = {} /\ w1.loadPhase = "generating" THEN loadSessionFinish(w1) ELSE w1

\* (a continuation that writes its result to the first page still waiting)
generationResolved_FirstWaiting(w, p, outcome) ==
    LET q == CHOOSE q \in Pending(w) : \A r \in Pending(w) : q <= r
        w1 == [w EXCEPT !.pageDescriptions[q] =
                            IF outcome = "text" THEN "generated"
                            ELSE getDefaultDescription(w.generation[q].type),
                        !.generation[p].outcome = outcome]
    IN IF Pending(w1) = {} /\ w1.loadPhase = "generating" THEN loadSessionFinish(w1) ELSE w1

\* The request for page p is answered: generatePageSpecificDescription(page)
\* returns the generated text (outcome "text") or, on a timeout, a non-2xx
\* response, a response without text or an error, the default for the page's
\* type (outcome "failed"), and the result is stored under the page's id.
\* When it was the last request, Promise.all resolves and loadSession() goes
\* on.
generationResolved(w, p, outcome) ==
    LET description == IF outcome = "text" THEN "generated"
                       ELSE getDefaultDescription(w.generation[p].type)
        w1 == [w EXCEPT !.pageDescriptions[p] = description,
                        !.generation[p].outcome = outcome]
    IN IF Pending(w1) = {} /\ w1.loadPhase = "generating" THEN loadSessionFinish(w1) ELSE w1

\* loadSession() from the point where a source has given `pages`: the data
\* is stored and the source decides loadedFromWindowOpener; with well-formed
\* data the descriptions are loaded or requested, and when no request is
\* pending the load completes; otherwise updatePropertyAddress() throws and
\* the error is shown.
loadSessionData(w, source, pages, wellFormed) ==
    LET w1 == [AssignFresh(w, {"sessionPages"}) EXCEPT
                  !.loadedFromWindowOpener = (source = "opener"),
                  !.sessionPages = pages,
                  !.persisted = IF @ = <<>> THEN pages ELSE @,
                  !.nextPageId = IF @ > InitPages + 1 THEN @ ELSE InitPages + 1]
        w2 == generateAllPageDescriptions(w1)
    IN IF ~wellFormed THEN loadSessionFailed(w1)
       ELSE IF Pending(w2) # {} THEN [w2 EXCEPT !.loadPhase = "generating"]
       ELSE loadSessionFinish(w2)

\* loadSession() when every content page carries its description and the
\* backend, when asked, answers before any other event: the load runs to its
\* end. The opener and the cache hold the session as it was created, the
\* backend the document it last stored.
loadSession(w, avail, wellFormed) ==
    LET source == trySources(avail).used
        stored == IF w.persisted = <<>> THEN LoadedPages ELSE w.persisted
        w1 == [loadSessionStart(w) EXCEPT !.load = LoadReport(avail)]
    IN IF source = "none" THEN loadSessionFailed(w1)
       ELSE loadSessionData(w1, source, IF source = "backend" THEN stored ELSE LoadedPages,
                            wellFormed)

\* generateBrochurePages() (unified_brochure_builder.js): the pages made
\* from the categorized photos of a session without pages, a cover and
\* content pages that have no description yet.
GeneratedPages ==
    [i \in 1..InitPages |->
        [id |-> i, content |-> 0,
         type |-> IF i = 1 THEN "cover" ELSE "kitchen", description |-> ""]]

\* applyTemplateToAll(templateId), called when the page defines it: the
\* template system restyles the pages and may or may not mark the session
\* dirty.
applyTemplateToAll(w, marksDirty) == IF marksDirty THEN [w EXCEPT !.isDirty = TRUE] ELSE w

\* The deferred callback of the auto-generation.
autoGeneratedSaveCallback(w, marksDirty) == saveSession(applyTemplateToAll(w, marksDirty))

\* loadSession() with autoGenerate=true in the URL on a session that has
\* photos and no pages: the generated pages become the session's pages, the
\* template and the save are deferred by 500 ms, and the load goes on as for
\* any session. The backend still holds the session without pages.
loadSessionAutoGenerate(w, avail, marksDirty) ==
    LET source == trySources(avail).used
        w1 == [loadSessionStart(w) EXCEPT !.load = LoadReport(avail)]
        w2 == setTimeout(w1, "autoGeneratedSave", 500, IF marksDirty THEN 1 ELSE 0)
    IN IF source = "none" THEN loadSessionFailed(w1)
       ELSE [loadSessionData(w2, source, GeneratedPages, TRUE) EXCEPT !.persisted = w.persisted]

\* skipAIGeneration(): the pages without a description get the default for
\* their type, the pages are rendered, the initial snapshot is deferred,
\* auto-save is started and the overlay closed. (EditorState.skipGeneration
\* is set and never read.)
skipAIGeneration(w) ==
    LET Page(p) == w.sessionPages[PageIndexOf(w.sessionPages, p)]
        w1 == [w EXCEPT !.pageDescriptions =
                  [p \in PageIds |->
                      IF PageIndexOf(w.sessionPages, p) # 0 /\ Page(p).type # "cover" /\ @[p] = ""
                      THEN getDefaultDescription(Page(p).type)
                      ELSE @[p]]]
        w2 == startAutoSave(setTimeout(renderPages(w1), "initialSnapshot", 100, 0))
    IN [showLoading(w2, FALSE) EXCEPT !.notice = "Loaded with default descriptions"]

\* The function assigned to window.skipAIGeneration: a notice and nothing
\* else.
windowSkipAIGeneration(w) ==
    [w EXCEPT !.notice = "AI generation skipped - entering manual mode"]

\* The deferred callback of loadSession and skipAIGeneration.
initialSnapshotCallback(w) ==
    IF Len(w.history) = 0 THEN saveToHistory(w, "initial load") ELSE w

\* loadDemoMode(): a fixed three-page session; no snapshot is taken and
\* auto-save is not started.
DemoPages ==
    [i \in 1..3 |->
        [id |-> i, content |-> 0,
         type |-> IF i = 1 THEN "cover" ELSE "kitchen", description |-> "existing"]]

loadDemoMode(w) ==
    renderPages([AssignFresh(w, {"sessionPages", "pageDescriptions"}) EXCEPT
                          !.isDemoMode = TRUE,
                          !.sessionPages = DemoPages,
                          !.persisted = DemoPages,
                          !.nextPageId = 4,
                          !.pageDescriptions =
                              [p \in PageIds |-> IF p <= 3 THEN "existing" ELSE ""]])

\* duplicateCurrentPage()
duplicateCurrentPage(w) ==
    LET i == PageIndexOf(w.sessionPages, w.currentPage)
    IN IF w.currentPage = 0 THEN [w EXCEPT !.notice = "Please select a page to duplicate", !.ok = FALSE]
       ELSE IF i = 0 THEN [w EXCEPT !.notice = "Page not found", !.ok = FALSE]
       ELSE LET newId == w.nextPageId
                copy == [w.sessionPages[i] EXCEPT !.id = newId]
                w1 == [w EXCEPT
                          !.nextPageId = @ + 1,
                          !.sessionPages = SubSeq(@, 1, i) \o <<copy>> \o SubSeq(@, i + 1, Len(@)),
                          !.pageDescriptions =
                              [p \in PageIds |->
                                  IF p = newId /\ @[w.sessionPages[i].id] # ""
                                  THEN @[w.sessionPages[i].id]
                                  ELSE @[p]]]
                w2 == setTimeout(renderPages(w1), "duplicateSnapshot", 100, newId)
            IN [w2 EXCEPT !.isDirty = TRUE, !.notice = "Page duplicated"]

\* The deferred callback of duplicateCurrentPage.
duplicateSnapshotCallback(w, pageId) == saveToHistory(selectPage(w, pageId), "duplicate page")

\* ----------------------------------------------------------- smart guides
\* src/frontend/smart_guides.js: the snapping of a dragged element against
\* the canvas and the other elements on it. Positions are canvas-relative
\* pixels; the boxes of the model have even sizes, so their centres are
\* whole pixels.
CONFIG ==
    [snapThreshold |-> 8, snapToGrid |-> FALSE, gridSize |-> 10,
     snapToElements |-> TRUE, snapToCenter |-> TRUE, snapToEdges |-> TRUE]

\* The module's state once the script has been evaluated.
SmartGuidesLoaded ==
    [CONFIG |-> CONFIG, activeElement |-> 0, canvas |-> FALSE, isEnabled |-> TRUE]

SnapElementIds == 1..MaxSnapElements

\* canvas.getBoundingClientRect(): the width and height of the canvas, and
\* the width and height of a design element.
SnapCanvasSize == 100
SnapElementSize == 20

\* Where a design element may lie on the canvas, and whether it is laid out
\* (offsetParent !== null).
SnapLefts == {10, 50}
SnapTop == 10

SnapNodes ==
    {[left |-> l, top |-> SnapTop, width |-> SnapElementSize, height |-> SnapElementSize,
      visible |-> v] : l \in SnapLefts, v \in BOOLEAN}

\* The canvases SmartGuides.init() may be given.
SnapCanvases == [SnapElementIds -> SnapNodes]

\* The positions a drag may propose.
SnapXs == {14, 45, 78}
SnapYs == {12}

Abs(n) == IF n < 0 THEN -n ELSE n

MathMin(a, b) == IF a <= b THEN a ELSE b

MathMax(a, b) == IF a >= b THEN a ELSE b

\* Math.round(n / d) for d > 0: halves round up.
MathRoundDiv(n, d) == (2 * n + d) \div (2 * d)

\* init(canvasElement)
init(g, canvasElement) == [g EXCEPT !.canvas = TRUE]

\* getSnappableElements(): the elements of the canvas, in document order,
\* that are not the active element and are laid out.
getSnappableElements(g, c) ==
    IF ~g.canvas THEN <<>>
    ELSE SeqFilter([i \in 1..MaxSnapElements |-> i],
                   LAMBDA el : el # g.activeElement /\ c[el].visible)

\* getElementSnapPoints(element)
getElementSnapPoints(c, el) ==
    [left |-> c[el].left, top |-> c[el].top,
     right |-> c[el].left + c[el].width, bottom |-> c[el].top + c[el].height,
     centerX |-> c[el].left + c[el].width \div 2,
     centerY |-> c[el].top + c[el].height \div 2,
     width |-> c[el].width, height |-> c[el].height]

\* getCanvasSnapPoints()
getCanvasSnapPoints ==
    [left |-> 0, top |-> 0, right |-> SnapCanvasSize, bottom |-> SnapCanvasSize,
     centerX |-> SnapCanvasSize \div 2, centerY |-> SnapCanvasSize \div 2,
     width |-> SnapCanvasSize, height |-> SnapCanvasSize]

\* (a loop body that moves the left edge, not the right one, to the
\* target's right edge)
snapXTo_RightEdgeUnadjusted(cfg, t, newX, newY, width, height) ==
    IF Abs(newX + width - t.right) <= cfg.snapThreshold /\ Abs(newX - t.left) > cfg.snapThreshold
    THEN <<[snapped |-> t.right,
            guide |-> [type |-> "vertical", pos |-> t.right,
                       from |-> MathMin(newY, t.top), to |-> MathMax(newY + height, t.bottom),
                       isCenter |-> FALSE]]>>
    ELSE <<>>

\* calculateSnap, the body of its first loop for one target: the alignment
\* of the X axis found with target t, if any (<<>>: none). A guide without
\* the isCenter property has isCenter FALSE.
snapXTo(cfg, t, newX, newY, width, height) ==
    LET th == cfg.snapThreshold
        elementLeft == newX
        elementRight == newX + width
        elementCenterX == newX + width \div 2
        Guide(x) == [type |-> "vertical", pos |-> x,
                     from |-> MathMin(newY, t.top), to |-> MathMax(newY + height, t.bottom),
                     isCenter |-> FALSE]
    IN IF Abs(elementLeft - t.left) <= th
       THEN <<[snapped |-> t.left, guide |-> Guide(t.left)]>>
       ELSE IF Abs(elementRight - t.right) <= th
       THEN <<[snapped |-> t.right - width, guide |-> Guide(t.right)]>>
       ELSE IF Abs(elementLeft - t.right) <= th
       THEN <<[snapped |-> t.right, guide |-> Guide(t.right)]>>
       ELSE IF Abs(elementRight - t.left) <= th
       THEN <<[snapped |-> t.left - width, guide |-> Guide(t.left)]>>
       ELSE IF cfg.snapToCenter /\ Abs(elementCenterX - t.centerX) <= th
       THEN <<[snapped |-> t.centerX - width \div 2,
               guide |-> [type |-> "vertical", pos |-> t.centerX, from |-> 0,
                          to |-> getCanvasSnapPoints.height, isCenter |-> TRUE]]>>
       ELSE <<>>

\* calculateSnap, the body of its second loop for one target: the alignment
\* of the Y axis found with target t, if any; the guide spans from the
\* snapped X.
snapYTo(cfg, t, snappedX, newY, width, height) ==
    LET th == cfg.snapThreshold
        adjustedElementTop == newY
        adjustedElementBottom == adjustedElementTop + height
        adjustedElementCenterY == adjustedElementTop + height \div 2
        Guide(y) == [type |-> "horizontal", pos |-> y,
                     from |-> MathMin(snappedX, t.left),
                     to |-> MathMax(snappedX + width, t.right),
                     isCenter |-> FALSE]
    IN IF Abs(adjustedElementTop - t.top) <= th
       THEN <<[snapped |-> t.top, guide |-> Guide(t.top)]>>
       ELSE IF Abs(adjustedElementBottom - t.bottom) <= th
       THEN <<[snapped |-> t.bottom - height, guide |-> Guide(t.bottom)]>>
       ELSE IF Abs(adjustedElementTop - t.bottom) <= th
       THEN <<[snapped |-> t.bottom, guide |-> Guide(t.bottom)]>>
       ELSE IF Abs(adjustedElementBottom - t.top) <= th
       THEN <<[snapped |-> t.top - height, guide |-> Guide(t.top)]>>
       ELSE IF cfg.snapToCenter /\ Abs(adjustedElementCenterY - t.centerY) <= th
       THEN <<[snapped |-> t.centerY - height \div 2,
               guide |-> [type |-> "horizontal", pos |-> t.centerY, from |-> 0,
                          to |-> getCanvasSnapPoints.width, isCenter |-> TRUE]]>>
       ELSE <<>>

\* calculateSnap past the assignment of activeElement: the targets are the
\* canvas and, with snapToElements, the snappable elements; each axis takes
\* the alignment of the first target that offers one; an axis left without
\* one is rounded to the grid when snapToGrid is set.
snapToTargets(g, c, element, newX, newY) ==
    LET cfg == g.CONFIG
        width == c[element].width
        height == c[element].height
        others == IF cfg.snapToElements THEN getSnappableElements(g, c) ELSE <<>>
        snapTargets == <<getCanvasSnapPoints>>
                           \o [i \in 1..Len(others) |-> getElementSnapPoints(c, others[i])]
        First(hits) == CHOOSE i \in hits : \A j \in hits : i <= j
        xHits == {i \in 1..Len(snapTargets) :
                     snapXTo(cfg, snapTargets[i], newX, newY, width, height) # <<>>}
        xSnapped == xHits # {}
        xSnap == snapXTo(cfg, snapTargets[First(xHits)], newX, newY, width, height)[1]
        snappedX == IF xSnapped THEN xSnap.snapped ELSE newX
        yHits == {i \in 1..Len(snapTargets) :
                     snapYTo(cfg, snapTargets[i], snappedX, newY, width, height) # <<>>}
        ySnapped == yHits # {}
        ySnap == snapYTo(cfg, snapTargets[First(yHits)], snappedX, newY, width, height)[1]
        snappedY == IF ySnapped THEN ySnap.snapped ELSE newY
        activeGuides == (IF xSnapped THEN <<xSnap.guide>> ELSE <<>>)
                            \o (IF ySnapped THEN <<ySnap.guide>> ELSE <<>>)
    IN [engine |-> g,
        result |->
            [x |-> IF cfg.snapToGrid /\ ~xSnapped
                   THEN MathRoundDiv(newX, cfg.gridSize) * cfg.gridSize ELSE snappedX,
             y |-> IF cfg.snapToGrid /\ ~ySnapped
                   THEN MathRoundDiv(newY, cfg.gridSize) * cfg.gridSize ELSE snappedY,
             guides |-> activeGuides, snappedX |-> xSnapped, snappedY |-> ySnapped]]

\* (a calculateSnap that collects its targets before it has made the
\* element the active one)
calculateSnap_StaleActiveElement(g, c, element, newX, newY) ==
    IF ~g.isEnabled \/ ~g.canvas
    THEN [engine |-> g, result |-> [x |-> newX, y |-> newY, guides |-> <<>>]]
    ELSE [snapToTargets(g, c, element, newX, newY) EXCEPT !.engine.activeElement = element]

\* calculateSnap(element, newX, newY): the module's state after the call
\* and the object returned.
calculateSnap(g, c, element, newX, newY) ==
    IF ~g.isEnabled \/ ~g.canvas
    THEN [engine |-> g, result |-> [x |-> newX, y |-> newY, guides |-> <<>>]]
    ELSE snapToTargets([g EXCEPT !.activeElement = element], c, element, newX, newY)

\* clearGuides()
clearGuides(g) == [g EXCEPT !.activeElement = 0]

\* setEnabled(enabled)
setEnabled(g, enabled) ==
    IF enabled THEN [g EXCEPT !.isEnabled = TRUE]
    ELSE clearGuides([g EXCEPT !.isEnabled = FALSE])

\* setConfig({key: value})
setConfig(g, key, value) == [g EXCEPT !.CONFIG[key] = value]

\* ------------------------------------------------- rendering and read-back
\* The editable regions of a cover page and of a details page, and what
\* updateSessionDataFromDOM() reads back from them. A text is a string
\* without markup or surrounding white space ("": none); a features value
\* is absent, an array of texts, or the markup of a rendered list.
NoFeatures == [kind |-> "absent", items |-> <<>>]

FeaturesArray(items) == [kind |-> "array", items |-> items]

FeaturesMarkup(items) == [kind |-> "html", items |-> items]

\* renderFeaturesList(features): one bullet per feature, three placeholder
\* bullets when there is no array.
renderFeaturesList(features) ==
    IF features.kind # "array" THEN FeaturesMarkup(<<"Feature 1", "Feature 2", "Feature 3">>)
    ELSE FeaturesMarkup(features.items)

\* renderCoverPage(container, page): the editable regions, by data-field.
renderCoverPage(page, houseName) ==
    [field \in {"title"} |->
        IF houseName # "" THEN houseName
        ELSE IF page.title # "" THEN page.title
        ELSE "Property Name"]

\* renderDetailsPage(container, page): the editable regions, by data-field.
renderDetailsPage(page, generatedText) ==
    [field \in {"description", "features"} |->
        IF field = "description"
        THEN (IF generatedText # "" THEN generatedText
              ELSE IF page.content.description # "" THEN page.content.description
              ELSE "Enter property description here...")
        ELSE renderFeaturesList(page.content.features)]

\* renderPageCanvas(page, index), for the two page types modelled.
renderPageCanvas(page, houseName, generatedText) ==
    IF page.type = "cover" THEN renderCoverPage(page, houseName)
    ELSE renderDetailsPage(page, generatedText)

\* updateSessionDataFromDOM(), for one page: the title region is stored in
\* page.title, every other region in page.content under its field.
extractEditables(page, editables) ==
    [title |-> IF "title" \in DOMAIN editables THEN editables["title"] ELSE page.title,
     type |-> page.type,
     content |->
         [field \in DOMAIN page.content |->
             IF field \in DOMAIN editables THEN editables[field] ELSE page.content[field]]]

\* The pages, property names and generated texts of the model.
RoundTripPages ==
    {[type |-> t, title |-> title, content |-> [description |-> d, features |-> f]] :
        t \in {"cover", "details"}, title \in {"", "Rose Cottage", "Welcome"},
        d \in {"", "A bright family home"},
        f \in {NoFeatures, FeaturesArray(<<"Garden">>)}}

HouseNames == {"", "Rose Cottage"}

GeneratedTexts == {"", "Generated description"}

\* ------------------------------------------------------ layout preferences
\* The layout picker of the sidebar and the three preference maps of
\* EditorState (pageLayouts, photoGaps, photoStacking). A page id is a
\* number or a string; a JavaScript value is modelled by its type and by
\* the text String() gives for it, which is also the property key it
\* selects in an object.
JsNumber(text) == [type |-> "number", text |-> text]

JsString(text) == [type |-> "string", text |-> text]

JsNull == [type |-> "null", text |-> ""]

NaN == JsNumber("NaN")

\* The texts parseInt(text, 10) reads as a number.
NumericTexts == {"1", "2"}

\* parseInt(text, 10)
parseInt(text) == IF text \in NumericTexts THEN JsNumber(text) ELSE NaN

\* a === b
StrictEquals(a, b) == a = b /\ a # NaN

\* The values an if () takes for false: null, NaN and the empty string.
Falsy(v) == v \in {JsNull, NaN, JsString("")}

\* The pages of the session: one with a number for its id, one whose id is
\* a string of digits, and one with the id duplicateCurrentPage() makes.
\* Every page is a generic page with photos.
LayoutPageIds == <<JsNumber("1"), JsString("2"), JsString("page_1")>>

\* The keys the preference maps are read and written under.
PreferenceKeys == {LayoutPageIds[i].text : i \in DOMAIN LayoutPageIds} \cup {NaN.text}

\* The choices the picker offers, "" and 0 standing for no stored value.
LayoutChoices == {"text-top", "photo-left"}

PhotoGapStep == 5

GapChoices == {PhotoGapStep}

PresetChoices == {"row"}

\* pages.find(p => p.id === pageId): the index of the page, 0 if none.
FindPage(pageId) ==
    IF \E i \in DOMAIN LayoutPageIds : StrictEquals(LayoutPageIds[i], pageId)
    THEN CHOOSE i \in DOMAIN LayoutPageIds : StrictEquals(LayoutPageIds[i], pageId)
    ELSE 0

\* document.querySelector(`.brochure-page[data-page-id="${pageId}"]`): the
\* index of the page element whose attribute is the text, 0 if none.
QueryPageEl(pageId) ==
    IF \E i \in DOMAIN LayoutPageIds : LayoutPageIds[i].text = pageId.text
    THEN CHOOSE i \in DOMAIN LayoutPageIds : LayoutPageIds[i].text = pageId.text
    ELSE 0

\* renderGenericPage(container, page) with renderPhotoSection(): the page
\* shows the preferences stored under its id.
renderGenericPage(s, i) ==
    LET key == LayoutPageIds[i].text
    IN [s EXCEPT !.shown[i] =
            [layout |-> IF s.pageLayouts[key] # "" THEN s.pageLayouts[key] ELSE "auto",
             gap |-> s.photoGaps[key],
             stacking |-> IF s.photoStacking[key] # "" THEN s.photoStacking[key] ELSE "grid"]]

\* renderLayoutPicker(): the controls are built for the current page when
\* there is one and it is found among the pages.
renderLayoutPicker(s) ==
    IF Falsy(s.currentPage) \/ FindPage(s.currentPage) = 0 THEN s
    ELSE [s EXCEPT !.picker = s.currentPage.text]

\* selectPage(pageId), the id as the page list and renderPages() pass it.
selectPageById(s, id) ==
    LET pageId == JsString(id.text)
    IN IF QueryPageEl(pageId) # 0
       THEN renderLayoutPicker([s EXCEPT !.currentPage = pageId])
       ELSE s

\* updateCurrentPageFromScroll(), page i being the most visible.
scrollToPageEl(s, i) ==
    LET pageId == parseInt(LayoutPageIds[i].text)
    IN IF ~StrictEquals(s.currentPage, pageId)
       THEN renderLayoutPicker([s EXCEPT !.currentPage = pageId])
       ELSE s

\* changePageLayout(pageId, layout)
changePageLayout(s, id, layout) ==
    LET pageId == IF id.type = "string" THEN parseInt(id.text) ELSE id
        s1 == [s EXCEPT !.pageLayouts[pageId.text] = layout, !.isDirty = TRUE]
    IN IF FindPage(pageId) = 0 THEN s1
       ELSE IF QueryPageEl(pageId) # 0 THEN renderGenericPage(s1, QueryPageEl(pageId))
       ELSE s1

\* The click listener of a layout card.
layoutCardClick(s, layout) ==
    LET pageId == JsString(s.picker)
    IN IF ~Falsy(pageId) THEN renderLayoutPicker(changePageLayout(s, pageId, layout))
       ELSE s

\* The input listener of the photo gap slider.
gapSliderInput(s, gap) ==
    LET pageId == parseInt(s.picker)
        s1 == [s EXCEPT !.photoGaps[pageId.text] = gap, !.isDirty = TRUE]
    IN IF FindPage(pageId) # 0 /\ QueryPageEl(pageId) # 0
       THEN renderGenericPage(s1, QueryPageEl(pageId))
       ELSE s1

\* The click listener of a photo preset button.
presetButtonClick(s, preset) ==
    LET pageId == parseInt(s.picker)
        s1 == [s EXCEPT !.photoStacking[pageId.text] = preset, !.isDirty = TRUE]
    IN renderLayoutPicker(
           IF FindPage(pageId) # 0 /\ QueryPageEl(pageId) # 0
           THEN renderGenericPage(s1, QueryPageEl(pageId))
           ELSE s1)

\* No control of the picker has been used.
NoChoice == [control |-> "none", page |-> 0, layout |-> "", gap |-> 0, preset |-> ""]

\* The picker after renderPages(): every page shows the defaults and the
\* first page is selected.
LayoutStart ==
    selectPageById(
        [currentPage |-> JsNull,
         picker |-> "",
         pageLayouts |-> [k \in PreferenceKeys |-> ""],
         photoGaps |-> [k \in PreferenceKeys |-> 0],
         photoStacking |-> [k \in PreferenceKeys |-> ""],
         shown |-> [i \in DOMAIN LayoutPageIds |->
                       [layout |-> "auto", gap |-> 0, stacking |-> "grid"]],
         isDirty |-> FALSE,
         choice |-> NoChoice],
        LayoutPageIds[1])

\* ------------------------------------------------------------------- Init
\* The script has been evaluated and no load path has run yet.
Init ==
    /\ loadState = "init"
    /\ loadPhase = "idle"
    /\ loadingOverlay = FALSE
    /\ generation = [p \in PageIds |-> NoRequest]
    /\ sessionPages = <<>>
    /\ currentPage = 0
    /\ selectedElement = <<>>
    /\ selectedElements = <<>>
    /\ isDirty = FALSE
    /\ pageDescriptions = [p \in PageIds |-> ""]
    /\ loadedFromWindowOpener = FALSE
    /\ isDemoMode = FALSE
    /\ errorModal = FALSE
    /\ history = <<>>
    /\ historyIndex = -1
    /\ isUndoRedo = FALSE
    /\ elements = [p \in PageIds |-> <<>>]
    /\ dom = <<>>
    /\ clipboardData = <<>>
    /\ timers = <<>>
    /\ inflight = <<>>
    /\ exportRequest = <<>>
    /\ persisted = <<>>
    /\ intervals = {}
    /\ autoSaveInterval = 0
    /\ nextElementId = 1
    /\ nextPageId = 1
    /\ lastOp = [op |-> "none", ok |-> TRUE, pushes |-> 0, evicted |-> FALSE,
                 exported |-> FALSE, load |-> <<>>, notice |-> ""]
    /\ pristine = TRUE
    /\ handedOff = FALSE
    /\ tornDown = FALSE
    /\ skipInvoked = FALSE
    /\ opCount = 0
    /\ smartGuides = SmartGuidesLoaded
    /\ snapCanvas = <<>>
    /\ snapCall = <<>>
    /\ roundTrip = <<>>
    /\ layoutState = LayoutStart

\* ---------------------------------------------------------------- actions
\* The world stays within the bounds of the model.
WithinBounds(w) ==
    /\ Len(w.timers) <= MaxTimers
    /\ Len(w.inflight) <= MaxInFlight
    /\ w.nextElementId <= MaxElementIds + 1
    /\ w.nextPageId <= MaxPages + 1
    /\ Cardinality(w.intervals) <= MaxIntervals

\* Handler op ran and left world w.
Ran(op, world) ==
    \E w \in {world} : \E written \in {WriteThrough(w)} :
        /\ WithinBounds(w)
        /\ Becomes(written)
        /\ lastOp' = [op |-> op, ok |-> w.ok, pushes |-> w.pushes, evicted |-> w.evicted,
                      exported |-> w.exported, load |-> w.load, notice |-> w.notice]
        /\ pristine' = (pristine /\ ~(op \in {"undo", "redo"} /\ w.ok))
        /\ handedOff' = (handedOff \/ (op \in {"loadSession", "loadRetry"}
                                          /\ w.ok /\ w.loadedFromWindowOpener))
        /\ tornDown' = (tornDown \/ op = "unload")
        /\ skipInvoked' = (skipInvoked \/ op = "skipGeneration")
        /\ UNCHANGED <<snapVars, roundTrip, layoutState>>

\* An event on the loaded editor (a user gesture, a tick of the auto-save
\* interval) runs handler op. Once the page is being left no gesture comes;
\* an interval that was not cleared still ticks.
Gesture(op, w) ==
    /\ loadState = "ready"
    /\ ~tornDown \/ op = "autoSaveTick"
    /\ opCount < MaxOps
    /\ Ran(op, w)
    /\ opCount' = opCount + 1
    /\ UNCHANGED loadState

\* A callback (timeout, network response) runs handler op.
Callback(op, w) ==
    /\ Ran(op, w)
    /\ UNCHANGED <<loadState, opCount>>

\* What a load that runs to its end finds: one source yielding data, or
\* none.
OneSource == {[src \in Sources |-> src = s] : s \in Sources \cup {"none"}}

\* loadState after a step of a load that left world w.
LoadStateAfter(w) ==
    IF ~w.ok THEN (IF loadState = "ready" THEN "ready" ELSE "failed")
    ELSE IF w.loadPhase = "idle" THEN "ready"
    ELSE loadState

LoadSession ==
    /\ loadState = "init"
    /\ loadPhase = "idle"
    /\ \E avail \in OneSource : \E wellFormed \in BOOLEAN :
           LET w == loadSession(World, avail, wellFormed)
           IN Ran("loadSession", w) /\ loadState' = LoadStateAfter(w)
    /\ UNCHANGED opCount

\* loadSession() with autoGenerate=true on a session with photos and no
\* pages, the backend, when asked, answering at once.
LoadSessionAutoGenerate ==
    /\ loadState = "init"
    /\ loadPhase = "idle"
    /\ \E avail \in OneSource : \E marksDirty \in BOOLEAN :
           LET w == loadSessionAutoGenerate(World, avail, marksDirty)
           IN Ran("loadSession", w) /\ loadState' = LoadStateAfter(w)
    /\ UNCHANGED opCount

\* loadSession() on a session of any shape: with the opener or the cache
\* yielding data it goes on at once, otherwise it awaits the backend.
BeginLoad ==
    /\ loadState = "init"
    /\ loadPhase = "idle"
    /\ \E opener, cache, wellFormed \in BOOLEAN : \E session \in Sessions :
           LET avail == [src \in Sources |-> (src = "opener" /\ opener) \/ (src = "cache" /\ cache)]
               w1 == loadSessionStart(World)
               w == IF opener \/ cache
                    THEN loadSessionData([w1 EXCEPT !.load = LoadReport(avail)],
                                         trySources(avail).used, session, wellFormed)
                    ELSE [w1 EXCEPT !.loadPhase = "fetching"]
           IN Ran("loadSession", w) /\ loadState' = LoadStateAfter(w)
    /\ UNCHANGED opCount

\* The backend answers the fetch of loadSession().
FetchResolved ==
    /\ loadPhase = "fetching"
    /\ \E backend, wellFormed \in BOOLEAN : \E session \in Sessions :
           LET avail == [src \in Sources |-> src = "backend" /\ backend]
               w1 == [World EXCEPT !.load = LoadReport(avail)]
               w == IF backend THEN loadSessionData(w1, "backend", session, wellFormed)
                    ELSE loadSessionFailed(w1)
           IN Ran("fetchResolved", w) /\ loadState' = LoadStateAfter(w)
    /\ UNCHANGED opCount

\* A generation request is answered or times out.
GenerationOutcomes == {"text", "failed"}

GenerationResolved ==
    \E p \in Pending(World) : \E outcome \in GenerationOutcomes :
        LET w == generationResolved(World, p, outcome)
        IN /\ Ran("generationResolved", w)
           /\ loadState' = LoadStateAfter(w)
           /\ UNCHANGED opCount

\* The user invokes skip-generation while the descriptions are generated.
\* The name resolves to the function assigned to window.skipAIGeneration or
\* to the declaration of skipAIGeneration, depending on how the page binds
\* its button.
SkipGeneration ==
    /\ loadPhase = "generating"
    /\ ~skipInvoked
    /\ ~tornDown
    /\ \/ Ran("skipGeneration", windowSkipAIGeneration(World)) /\ UNCHANGED loadState
       \/ Ran("skipGeneration", skipAIGeneration(World)) /\ loadState' = "ready"
    /\ UNCHANGED opCount

\* The Retry button of the error modal: hideError(); loadSession().
LoadRetry ==
    /\ errorModal
    /\ ~tornDown
    /\ loadPhase = "idle"
    /\ \E avail \in OneSource : \E wellFormed \in BOOLEAN :
           LET w == loadSession(hideError(World), avail, wellFormed)
           IN Ran("loadRetry", w) /\ loadState' = LoadStateAfter(w)
    /\ UNCHANGED opCount

LoadDemoMode ==
    /\ loadState = "init"
    /\ Ran("loadDemoMode", loadDemoMode(World))
    /\ loadState' = "ready"
    /\ UNCHANGED opCount

\* Timers of equal delay fire in the order they were set; a later timer of
\* a shorter delay may fire before an earlier one of a longer delay.
MayFire(i) == \A j \in 1..(i - 1) : timers[j].delay > timers[i].delay

TimerFires ==
    \E i \in 1..Len(timers) :
        /\ MayFire(i)
        /\ LET t == timers[i]
               w == [World EXCEPT !.timers = SubSeq(@, 1, i - 1) \o SubSeq(@, i + 1, Len(@))]
           IN Callback(t.kind,
                  CASE t.kind = "settle" -> settleCallback(w)
                    [] t.kind = "settleSelect" -> settleSelectCallback(w, t.arg)
                    [] t.kind = "initialSnapshot" -> initialSnapshotCallback(w)
                    [] t.kind = "loadingTimeout" -> forceCloseLoadingModal(w)
                    [] t.kind = "autoGeneratedSave" -> autoGeneratedSaveCallback(w, t.arg = 1)
                    [] t.kind = "duplicateSnapshot" -> duplicateSnapshotCallback(w, t.arg)
                    [] t.kind = "selectAdded" -> selectAddedCallback(w, t.arg))

Undo == Gesture("undo", undo(World))

Redo == Gesture("redo", redo(World))

Copy == Gesture("copy", copySelectedElement(World))

Paste == Gesture("paste", pasteElement(World, DefaultOffset))

Duplicate == Gesture("duplicate", duplicateElement(World))

Delete == Gesture("delete", deleteSelectedElement(World))

ToggleLock == Gesture("toggleLock", toggleElementLock(World))

AddElement == Gesture("addElement", addElementToCurrentPage(World))

DuplicatePage == Gesture("duplicatePage", duplicateCurrentPage(World))

\* A library item is dropped on a page.
DropXs == {0, DropMin}

DropElement ==
    \E i \in 1..Len(dom) : \E x \in DropXs :
        Gesture("dropElement", handleCanvasDrop(World, dom[i].pageId, x))

\* An arrow key, with or without Shift.
NudgeSteps == {-NudgeShiftStep, -NudgeStep, NudgeStep, NudgeShiftStep}

Nudge == \E step \in NudgeSteps : Gesture("nudge", arrowKeyNudge(World, step))

\* The canvas was scrolled and the debounced listener ran.
Scroll ==
    \E i \in 1..Len(dom) :
        Gesture("scroll", updateCurrentPageFromScroll(World, dom[i].pageId))

\* A click on a design element that is in the document selects it.
ClickElement ==
    \E i \in 1..Len(dom) : \E k \in 1..Len(dom[i].nodes) :
        Gesture("selectElement",
                selectElement(World, <<[id |-> dom[i].nodes[k].id,
                                        locked |-> dom[i].nodes[k].locked,
                                        left |-> dom[i].nodes[k].left,
                                        live |-> TRUE]>>))

\* Escape deselects.
Deselect == selectedElement # <<>> /\ Gesture("deselect", selectElement(World, <<>>))

\* A click on a page of the page list selects it.
ClickPage ==
    \E i \in 1..Len(dom) :
        /\ dom[i].pageId # currentPage
        /\ Gesture("selectPage", selectPage(World, dom[i].pageId))

\* Typing in an editable region of a page.
EditContent ==
    \E i \in 1..Len(dom) : \E c \in Contents :
        /\ c # dom[i].content
        /\ Gesture("input", editableInput(World, i, c))

ManualSave == Gesture("saveSession", saveSession(World))

ExportPDF == Gesture("exportPDF", exportPDF(World))

AutoSaveTick ==
    /\ intervals # {}
    /\ Gesture("autoSaveTick", autoSaveTick(World))

\* The unload listener: the page is being left.
Unload ==
    /\ loadState # "init"
    /\ ~tornDown
    /\ opCount < MaxOps
    /\ Ran("unload", stopAutoSave(World))
    /\ opCount' = opCount + 1
    /\ UNCHANGED loadState

SaveResponseOk == \E k \in 1..Len(inflight) : Callback("saveSucceeded", saveSucceeded(World, k))

SaveResponseFail == \E k \in 1..Len(inflight) : Callback("saveFailed", saveFailed(World, k))

\* ---- the smart guides' callers
\* The page initialises the guides, once, for a canvas with its design
\* elements.
SnapInit ==
    /\ ~smartGuides.canvas
    /\ \E canvas \in SnapCanvases :
           /\ smartGuides' = init(smartGuides, canvas)
           /\ snapCanvas' = canvas
    /\ UNCHANGED <<editorVars, snapCall, roundTrip, layoutState>>

\* A drag proposes a position for an element of the canvas.
CalculateSnap ==
    /\ snapCanvas # <<>>
    /\ \E element \in SnapElementIds : \E newX \in SnapXs : \E newY \in SnapYs :
           LET call == calculateSnap(smartGuides, snapCanvas, element, newX, newY)
           IN /\ smartGuides' = call.engine
              /\ snapCall' = <<[element |-> element, newX |-> newX, newY |-> newY,
                               activeBefore |-> smartGuides.activeElement,
                               result |-> call.result]>>
    /\ UNCHANGED <<editorVars, snapCanvas, roundTrip, layoutState>>

\* The drag ends.
ClearGuides ==
    /\ smartGuides' = clearGuides(smartGuides)
    /\ UNCHANGED <<editorVars, snapCanvas, snapCall, roundTrip, layoutState>>

SetEnabled ==
    /\ \E enabled \in BOOLEAN : smartGuides' = setEnabled(smartGuides, enabled)
    /\ UNCHANGED <<editorVars, snapCanvas, snapCall, roundTrip, layoutState>>

\* The switches of CONFIG a caller may set.
SnapSwitches == {"snapToElements", "snapToGrid"}

SetConfig ==
    /\ \E key \in SnapSwitches : \E value \in BOOLEAN :
           smartGuides' = setConfig(smartGuides, key, value)
    /\ UNCHANGED <<editorVars, snapCanvas, snapCall, roundTrip, layoutState>>

\* ---- rendering and read-back
\* A page of the session is rendered.
RenderPage ==
    /\ roundTrip = <<>>
    /\ \E page \in RoundTripPages : \E houseName \in HouseNames :
       \E generatedText \in GeneratedTexts :
           roundTrip' = <<[page |-> page,
                           editables |-> renderPageCanvas(page, houseName, generatedText),
                           extractions |-> 0]>>
    /\ UNCHANGED <<editorVars, snapVars, layoutState>>

\* The most read-backs of one rendered page.
MaxExtractions == 2

\* updateSessionDataFromDOM() runs on the rendered page, which no user has
\* edited.
ExtractFromDOM ==
    /\ roundTrip # <<>>
    /\ roundTrip[1].extractions < MaxExtractions
    /\ roundTrip' = <<[roundTrip[1] EXCEPT
                          !.page = extractEditables(@, roundTrip[1].editables),
                          !.extractions = @ + 1]>>
    /\ UNCHANGED <<editorVars, snapVars, layoutState>>

\* ---- layout preferences
\* A step of the layout picker.
LayoutStep(s, choice) ==
    /\ layoutState' = [s EXCEPT !.choice = choice]
    /\ UNCHANGED <<editorVars, snapVars, roundTrip>>

\* A page is clicked in the page list.
SelectLayoutPage ==
    \E i \in DOMAIN LayoutPageIds :
        LayoutStep(selectPageById(layoutState, LayoutPageIds[i]), NoChoice)

\* The canvas is scrolled until another page is the most visible.
ScrollToPage ==
    \E i \in DOMAIN LayoutPageIds :
        LayoutStep(scrollToPageEl(layoutState, i), NoChoice)

\* The page the picker's controls name.
PickerPage == QueryPageEl(JsString(layoutState.picker))

\* A layout card is clicked.
ChooseLayout ==
    /\ layoutState.picker # ""
    /\ \E layout \in LayoutChoices :
           LayoutStep(layoutCardClick(layoutState, layout),
                      [NoChoice EXCEPT !.control = "layout", !.page = PickerPage,
                                       !.layout = layout])

\* The photo gap slider is moved.
ChooseGap ==
    /\ layoutState.picker # ""
    /\ \E gap \in GapChoices :
           LayoutStep(gapSliderInput(layoutState, gap),
                      [NoChoice EXCEPT !.control = "gap", !.page = PickerPage, !.gap = gap])

\* A photo preset button is clicked.
ChoosePreset ==
    /\ layoutState.picker # ""
    /\ \E preset \in PresetChoices :
           LayoutStep(presetButtonClick(layoutState, preset),
                      [NoChoice EXCEPT !.control = "preset", !.page = PickerPage,
                                       !.preset = preset])

Next ==
    \/ LoadSession
    \/ LoadSessionAutoGenerate
    \/ BeginLoad
    \/ FetchResolved
    \/ GenerationResolved
    \/ SkipGeneration
    \/ LoadRetry
    \/ LoadDemoMode
    \/ TimerFires
    \/ Undo
    \/ Redo
    \/ Copy
    \/ Paste
    \/ Duplicate
    \/ Delete
    \/ ToggleLock
    \/ AddElement
    \/ DropElement
    \/ Nudge
    \/ Scroll
    \/ DuplicatePage
    \/ ClickElement
    \/ Deselect
    \/ ClickPage
    \/ EditContent
    \/ ManualSave
    \/ ExportPDF
    \/ AutoSaveTick
    \/ Unload
    \/ SaveResponseOk
    \/ SaveResponseFail
    \/ SnapInit
    \/ CalculateSnap
    \/ ClearGuides
    \/ SetEnabled
    \/ SetConfig
    \/ RenderPage
    \/ ExtractFromDOM
    \/ SelectLayoutPage
    \/ ScrollToPage
    \/ ChooseLayout
    \/ ChooseGap
    \/ ChoosePreset

Spec == Init /\ [][Next]_vars

\* The editing gestures alone: the session is loaded and then only the
\* handlers that read or write the history, the elements, the selection and
\* the pages run (no typing, no save request).
NextEditing ==
    \/ LoadSession
    \/ LoadDemoMode
    \/ TimerFires
    \/ Undo
    \/ Redo
    \/ Copy
    \/ Paste
    \/ Duplicate
    \/ Delete
    \/ ToggleLock
    \/ AddElement
    \/ DuplicatePage
    \/ ClickElement
    \/ Deselect
    \/ ClickPage

SpecEditing == Init /\ [][NextEditing]_vars

\* Undo and redo over a history of element and page additions, in a browser
\* that runs its timers: a timeout that was set fires.
NextRestore ==
    \/ LoadSession
    \/ TimerFires
    \/ Undo
    \/ Redo
    \/ AddElement
    \/ DuplicatePage

SpecRestoreFair == Init /\ [][NextRestore]_vars /\ WF_vars(TimerFires)

\* The gestures on the design elements of the canvas: elements are added,
\* dropped, selected, moved, locked, copied, pasted and deleted, the current
\* page follows clicks and scrolling, and undo/redo restore snapshots.
NextCanvas ==
    \/ LoadSession
    \/ LoadDemoMode
    \/ TimerFires
    \/ Undo
    \/ Redo
    \/ Copy
    \/ Paste
    \/ Duplicate
    \/ Delete
    \/ ToggleLock
    \/ AddElement
    \/ DropElement
    \/ Nudge
    \/ Scroll
    \/ ClickElement
    \/ ClickPage

SpecCanvas == Init /\ [][NextCanvas]_vars

\* Copy and paste alone: elements are added and selected, copied, pasted and
\* duplicated while the current page follows clicks and scrolling.
NextClipboard ==
    \/ LoadSession
    \/ LoadDemoMode
    \/ TimerFires
    \/ AddElement
    \/ ClickElement
    \/ Deselect
    \/ Copy
    \/ Paste
    \/ Duplicate
    \/ Scroll
    \/ ClickPage

SpecClipboard == Init /\ [][NextClipboard]_vars

\* Typing and saving alone: the session is loaded, the user types and
\* duplicates pages, and save requests are issued and answered.
NextSaving ==
    \/ LoadSession
    \/ LoadRetry
    \/ TimerFires
    \/ DuplicatePage
    \/ EditContent
    \/ ManualSave
    \/ AutoSaveTick
    \/ SaveResponseOk
    \/ SaveResponseFail

SpecSaving == Init /\ [][NextSaving]_vars

\* Leaving the page: the session is loaded, possibly again after a failed
\* save, the user types and saves, the page is left and the intervals that
\* still run tick.
NextTeardown ==
    \/ LoadSession
    \/ LoadRetry
    \/ TimerFires
    \/ EditContent
    \/ ManualSave
    \/ AutoSaveTick
    \/ Unload
    \/ SaveResponseOk
    \/ SaveResponseFail

SpecTeardown == Init /\ [][NextTeardown]_vars

\* Saving on its own: the session is loaded once, the user types, and save
\* requests are issued by Ctrl+S, the export and the 30 s interval and are
\* answered by the backend.
NextAutoSave ==
    \/ LoadSession
    \/ TimerFires
    \/ EditContent
    \/ ManualSave
    \/ ExportPDF
    \/ AutoSaveTick
    \/ SaveResponseOk
    \/ SaveResponseFail

SpecAutoSave == Init /\ [][NextAutoSave]_vars

\* Loading alone: a session of any shape is loaded from the source that
\* yields it, its descriptions are generated, the user may skip the
\* generation, and the timeouts fire.
NextLoading ==
    \/ BeginLoad
    \/ FetchResolved
    \/ GenerationResolved
    \/ SkipGeneration
    \/ TimerFires

SpecLoading == Init /\ [][NextLoading]_vars

\* Loading as the browser schedules it: the page's start-up runs, a timeout
\* that was set fires, and a generation request, which carries its own 30 s
\* timeout, is answered one way or the other. The fetch of loadSession()
\* carries no timeout: nothing obliges the backend to answer it.
SpecLoadingFair ==
    /\ Init
    /\ [][NextLoading]_vars
    /\ WF_vars(BeginLoad)
    /\ WF_vars(TimerFires)
    /\ WF_vars(GenerationResolved)

\* Auto-generation: a session with photos and no pages is loaded with the
\* autoGenerate flag, its descriptions are generated, the deferred callbacks
\* run, the user types and saves.
NextAutoGenerate ==
    \/ LoadSessionAutoGenerate
    \/ GenerationResolved
    \/ TimerFires
    \/ EditContent
    \/ ManualSave
    \/ AutoSaveTick
    \/ SaveResponseOk
    \/ SaveResponseFail

SpecAutoGenerate == Init /\ [][NextAutoGenerate]_vars

\* The smart guides alone: the engine is initialised for a canvas, drags
\* propose positions, and the engine is switched and configured.
NextSnap ==
    \/ SnapInit
    \/ CalculateSnap
    \/ ClearGuides
    \/ SetEnabled
    \/ SetConfig

SpecSnap == Init /\ [][NextSnap]_vars

\* Rendering and read-back alone: a page is rendered and read back without
\* an edit in between.
NextRoundTrip ==
    \/ RenderPage
    \/ ExtractFromDOM

SpecRoundTrip == Init /\ [][NextRoundTrip]_vars

\* The layout picker alone.
NextLayout ==
    \/ SelectLayoutPage
    \/ ScrollToPage
    \/ ChooseLayout
    \/ ChooseGap
    \/ ChoosePreset

SpecLayout == Init /\ [][NextLayout]_vars

\* ================================================================== claims
\* The deferred settle steps of restores that have not run yet.
SettleKinds == {"settle", "settleSelect"}

PendingSettles(ts) == Cardinality({i \in 1..Len(ts) : ts[i].kind \in SettleKinds})

\* Every pending settle step of w runs, oldest first.
RunSettles(w) ==
    LET Step[n \in 0..Len(w.timers)] ==
            IF n = 0 THEN [w EXCEPT !.timers = SeqFilter(@, LAMBDA t : t.kind \notin SettleKinds)]
            ELSE LET t == w.timers[n]
                 IN IF t.kind = "settle" THEN settleCallback(Step[n - 1])
                    ELSE IF t.kind = "settleSelect" THEN settleSelectCallback(Step[n - 1], t.arg)
                    ELSE Step[n - 1]
    IN Step[Len(w.timers)]

\* undo() / redo() called n times, each after the previous restore settled.
UndoTimes(w, n) ==
    LET U[k \in 0..n] == IF k = 0 THEN w ELSE RunSettles(undo(U[k - 1]))
    IN U[n]

RedoTimes(w, n) ==
    LET R[k \in 0..n] == IF k = 0 THEN w ELSE RunSettles(redo(R[k - 1]))
    IN R[n]

\* What the round-trip claim compares: the document pages, the elements map
\* and the page descriptions.
Document(w) ==
    [pages |-> w.sessionPages, elements |-> w.elements, descriptions |-> w.pageDescriptions]

\* The handlers that record one history entry when they succeed.
RecordedOps == {"paste", "duplicate", "delete", "toggleLock", "addElement"}

\* The editor is k recorded actions past its initial snapshot, nothing was
\* undone so far and no callback is pending.
AfterRecordedActions(k) ==
    /\ loadState = "ready"
    /\ pristine
    /\ timers = <<>>
    /\ ~isUndoRedo
    /\ k >= 1
    /\ Len(history) = k + 1
    /\ historyIndex = k
    /\ history[1].action = "initial load"

\* C1: after k history-recorded actions following the initial snapshot
\* (k below the history bound), undo() k times and then redo() k times, each
\* after the previous restore has settled, leaves the document pages, the
\* elements map and the page descriptions equal to the state after the k-th
\* action.
C1_UndoRedoRoundTrip ==
    \A k \in 1..(maxHistorySize - 1) :
        AfterRecordedActions(k)
            => Document(RedoTimes(UndoTimes(World, k), k)) = Document(World)

\* C2: once an undo has happened, a history-recorded mutating action that
\* succeeds leaves nothing to redo: the next redo() reports "Nothing to redo".
C2_RedoUnreachableAfterNewAction ==
    [][(~pristine /\ lastOp'.op \in RecordedOps /\ lastOp'.ok)
          => redo(World').notice = "Nothing to redo"]_vars

\* C3: the history never holds more than maxHistorySize entries; a push that
\* would exceed the bound removes exactly the oldest entry, keeps the others
\* in order and leaves historyIndex where it was; any other push advances
\* historyIndex by one.
C3_PushStep ==
    lastOp'.pushes = 1 =>
        LET kept == SubSeq(history, 1, historyIndex + 1)
            new == history'[Len(history')]
        IN IF Len(kept) + 1 > maxHistorySize
           THEN /\ history' = Tail(history) \o <<new>>
                /\ historyIndex' = historyIndex
                /\ lastOp'.evicted
           ELSE /\ history' = kept \o <<new>>
                /\ historyIndex' = historyIndex + 1
                /\ ~lastOp'.evicted

C3_HistoryBound ==
    /\ [](Len(history) <= maxHistorySize)
    /\ [][C3_PushStep]_vars

\* A push has just evicted the oldest entry of a full history.
C3_Witness ==
    /\ lastOp.pushes = 1
    /\ lastOp.evicted
    /\ Len(history) = maxHistorySize
    /\ historyIndex = maxHistorySize - 1

\* C4: -1 <= historyIndex < history.length in every state, and right after a
\* saveToHistory call that was not suppressed the editor is at head.
C4_IndexInRange ==
    /\ -1 <= historyIndex
    /\ historyIndex < Len(history)
    /\ (lastOp.pushes >= 1 => historyIndex = Len(history) - 1)

\* A push was made after an undo: the entries past the index were dropped.
C4_Witness ==
    /\ ~pristine
    /\ lastOp.pushes = 1
    /\ lastOp.op \in RecordedOps
    /\ historyIndex = Len(history) - 1
    /\ Len(history) >= 2

\* C5: after a load path has completed, the first history entry is the
\* snapshot labelled "initial load", recorded before the snapshot of any user
\* action (stated while nothing was undone and nothing was evicted, so the
\* first entry is still the first one ever recorded).
C5_InitialLoadFirst ==
    (loadState = "ready" /\ pristine /\ Len(history) \in 1..(maxHistorySize - 1))
        => history[1].action = "initial load"

\* C6: while the deferred settle step of a restore is pending no second
\* undo()/redo() restore has begun, and isUndoRedo is true as long as the
\* settle step of any started restore has not run.
C6_RestoreNotReentered ==
    /\ PendingSettles(timers) <= 1
    /\ (PendingSettles(timers) >= 1 => isUndoRedo)

\* C7: isDirty is true exactly when the in-memory document (the pages with
\* the edits made on the canvas) differs from the document last persisted.
C7_DirtyIffDiffers ==
    loadState = "ready"
        => (isDirty <=> updateSessionDataFromDOM(World).sessionPages # persisted)

\* C8: at no time are two save requests in flight.
C8_OneSaveInFlight == Len(inflight) <= 1

\* C9: each successful pasteElement, deleteSelectedElement and
\* toggleElementLock, the settle window after an undo/redo included, appends
\* exactly one history snapshot and sets isDirty.
C9_OneSnapshotPerOperation ==
    [][(lastOp'.op \in {"paste", "delete", "toggleLock"} /\ lastOp'.ok)
          => (/\ lastOp'.pushes = 1
              /\ history'[Len(history')].state = captureEditorState(World')
              /\ isDirty')]_vars

\* C10: deleteSelectedElement on a selected element whose lock flag is set
\* fails and leaves the elements map, the element, the selection, the
\* history, historyIndex and isDirty unchanged.
C10_LockedDeleteRefused ==
    [][(/\ lastOp'.op = "delete"
        /\ Selected(World) # <<>>
        /\ Selected(World)[1].locked)
          => (/\ ~lastOp'.ok
              /\ UNCHANGED <<elements, dom, selectedElement, selectedElements,
                             history, historyIndex, isDirty>>)]_vars

\* A delete was refused on a locked element that is still on the canvas and
\* still in the elements map.
C10_Witness ==
    /\ lastOp.op = "delete"
    /\ ~lastOp.ok
    /\ selectedElement # <<>>
    /\ selectedElement[1].locked
    /\ selectedElement[1].live
    /\ Attached(dom, selectedElement[1].id)
    /\ \E p \in PageIds : \E i \in 1..Len(elements[p]) :
           elements[p][i].id = selectedElement[1].id

\* The left coordinate of every design element on the canvas, by id.
LeftOf(d) ==
    [e \in UNION {{d[i].nodes[k].id : k \in 1..Len(d[i].nodes)} : i \in 1..Len(d)} |->
        LET i == CHOOSE i \in 1..Len(d) : \E k \in 1..Len(d[i].nodes) : d[i].nodes[k].id = e
            k == CHOOSE k \in 1..Len(d[i].nodes) : d[i].nodes[k].id = e
        IN d[i].nodes[k].left]

\* The lock flag of the design element e on the canvas ("absent": no node).
LockOf(d, e) ==
    IF Attached(d, e)
    THEN LET i == CHOOSE i \in 1..Len(d) : \E k \in 1..Len(d[i].nodes) : d[i].nodes[k].id = e
             k == CHOOSE k \in 1..Len(d[i].nodes) : d[i].nodes[k].id = e
         IN IF d[i].nodes[k].locked THEN "locked" ELSE "unlocked"
    ELSE "absent"

\* C11: a direct manipulation (the arrow-key nudge) of a selected element
\* whose lock flag is set does not move the element and does not mark the
\* document dirty.
C11_LockedNotMoved ==
    [][(/\ lastOp'.op = "nudge"
        /\ selectedElement # <<>>
        /\ selectedElement[1].locked)
          => (/\ selectedElement'[1].left = selectedElement[1].left
              /\ LeftOf(dom') = LeftOf(dom)
              /\ isDirty' = isDirty)]_vars

\* The snapshot at history index n (0-based) holds an entry for element e.
RecordedIn(n, e) ==
    \E p \in PageIds : \E k \in 1..Len(history[n + 1].state.elements[p]) :
        history[n + 1].state.elements[p][k].id = e

\* C12: lock state is undoable: right after a recorded toggleElementLock on
\* an element of the canvas that the previous snapshot already holds, undo()
\* puts the element's lock flag back to its value before the toggle and a
\* following redo() to its value after it.
C12_LockUndoable ==
    (/\ lastOp.op = "toggleLock"
     /\ lastOp.ok
     /\ lastOp.pushes = 1
     /\ historyIndex >= 1
     /\ selectedElement # <<>>
     /\ selectedElement[1].live
     /\ RecordedIn(historyIndex - 1, selectedElement[1].id))
        => LET e == selectedElement[1].id
               after == LockOf(dom, e)
               before == IF after = "locked" THEN "unlocked" ELSE "locked"
               undone == RunSettles(undo(World))
               redone == RunSettles(redo(undone))
           IN /\ LockOf(undone.dom, e) = before
              /\ LockOf(redone.dom, e) = after

\* C13: pasteElement with an empty clipboard or with no page active fails and
\* changes neither the elements map, the canvas, the selection, the
\* clipboard, the history, historyIndex nor isDirty.
C13_PasteRefused ==
    [][(lastOp'.op = "paste" /\ (clipboardData = <<>> \/ currentPage = 0))
          => (/\ ~lastOp'.ok
              /\ UNCHANGED <<elements, dom, selectedElement, selectedElements,
                             clipboardData, history, historyIndex, isDirty>>)]_vars

\* A paste was refused with an element on the clipboard and no page active.
C13_Witness ==
    /\ lastOp.op = "paste"
    /\ ~lastOp.ok
    /\ clipboardData # <<>>
    /\ currentPage = 0
    /\ Len(dom) > 0

\* C14: a successful paste of an element copied at x >= 0 puts the clone at
\* x + 20, a successful duplicate at x + 30; the current page's element list
\* grows by exactly one entry and selectedElement references the clone.
C14_PasteStep(op, x, offsetX) ==
    (lastOp'.op = op /\ lastOp'.ok /\ x >= 0)
        => (/\ selectedElement' # <<>>
            /\ selectedElement'[1].id = nextElementId
            /\ selectedElement'[1].live
            /\ Attached(dom', nextElementId)
            /\ LeftOf(dom')[nextElementId] = x + offsetX
            /\ Len(elements'[currentPage]) = Len(elements[currentPage]) + 1)

C14_PasteOffset ==
    [][/\ clipboardData # <<>> => C14_PasteStep("paste", clipboardData[1].left, DefaultOffset)
       /\ Selected(World) # <<>>
              => C14_PasteStep("duplicate", Selected(World)[1].left, DuplicateOffset)]_vars

C16_DuplicateAbandoned ==
    [][(lastOp'.op = "duplicate" /\ Selected(World) # <<>> /\ currentPage = 0)
          => UNCHANGED <<elements, selectedElement, selectedElements, history,
                         historyIndex, isDirty, clipboardData>>]_vars

\* Element e has an entry in some page's element list of els.
Listed(els, e) == \E p \in PageIds : \E k \in 1..Len(els[p]) : els[p][k].id = e

\* C17: after a successful deleteSelectedElement no page's element list
\* holds the deleted element's id and the selection is empty, whatever page
\* is current.
C17_DeletedEverywhere ==
    [][(lastOp'.op = "delete" /\ lastOp'.ok)
          => (/\ ~Listed(elements', Selected(World)[1].id)
              /\ selectedElement' = <<>>
              /\ selectedElements' = <<>>)]_vars

\* C18: when a backend save fails isDirty is true afterwards, the error is
\* shown, and a later save issues the PUT again.
C18_FailedSaveKeepsDirty ==
    [][lastOp'.op = "saveFailed"
          => (/\ isDirty'
              /\ errorModal'
              /\ Len(saveSession(World').inflight) = Len(inflight') + 1)]_vars

\* C19: once a load through the opener window's handoff has completed, no
\* save request is issued for the rest of the session, through saves,
\* auto-save ticks, exports and load retries, and a save only clears isDirty.
C19_NoPutAfterHandoff ==
    [][handedOff
          => (/\ loadedFromWindowOpener'
              /\ Len(inflight') <= Len(inflight)
              /\ (lastOp'.op = "saveSession" /\ lastOp'.ok)
                     => (~isDirty' /\ UNCHANGED <<sessionPages, dom, persisted>>))]_vars

\* The handlers that may call saveSession().
SavingOps == {"saveSession", "autoSaveTick", "exportPDF"}

\* C20: no save request is issued while isDirty is false: a manual save, an
\* auto-save tick and an export then change no state of the editor.
C20_NoPutWhenClean ==
    [][~isDirty
          => (/\ Len(inflight') <= Len(inflight)
              /\ lastOp'.op \in SavingOps
                     => UNCHANGED <<sessionPages, dom, isDirty, inflight, persisted,
                                    history, historyIndex, timers, errorModal>>)]_vars

\* An auto-save tick ran on a clean document after a save had succeeded.
C20_Witness ==
    /\ lastOp.op = "autoSaveTick"
    /\ ~isDirty
    /\ ~loadedFromWindowOpener
    /\ inflight = <<>>
    /\ persisted # LoadedPages

\* C28: undo() with historyIndex <= 0 and redo() with historyIndex at the
\* last entry change nothing (the history, the index, the pages, the DOM,
\* the elements map, the descriptions, the guard flag, the pending timers)
\* and only show their notice.
C28_BoundaryNoOp ==
    [][(\/ lastOp'.op = "undo" /\ historyIndex <= 0
        \/ lastOp'.op = "redo" /\ historyIndex >= Len(history) - 1)
          => (/\ UNCHANGED <<history, historyIndex, sessionPages, dom, elements,
                             pageDescriptions, isUndoRedo, timers, currentPage, isDirty>>
              /\ lastOp'.notice = (IF lastOp'.op = "undo" THEN "Nothing to undo"
                                   ELSE "Nothing to redo"))]_vars

\* undo() was refused at the initial snapshot with design elements on the
\* canvas.
C28_Witness ==
    /\ lastOp.op = "undo"
    /\ lastOp.notice = "Nothing to undo"
    /\ historyIndex = 0
    /\ Len(history) >= 1
    /\ \E p \in PageIds : elements[p] # <<>>

\* The snapshots of history h that are still entries after a step that
\* pushed `pushes` entries, evicting the oldest one or not: position i of
\* the new history and the position it had before.
KeptEntries(h, hNew, pushes, evicted) ==
    LET off == IF evicted THEN 1 ELSE 0
    IN {<<i, i + off>> : i \in 1..(Len(hNew) - pushes)} \cap
           ((1..Len(hNew)) \X (1..Len(h)))

\* C29: the captured state of a history entry (sessionPages,
\* pageDescriptions, elements) is the same after every step as long as the
\* entry stays in the history, whatever the step does to the live pages,
\* elements map and descriptions, also after the entry has been restored.
C29_SnapshotsImmutable ==
    [][\A pr \in KeptEntries(history, history', lastOp'.pushes, lastOp'.evicted) :
           history'[pr[1]] = history[pr[2]]]_vars

\* An entry was restored by undo() and the elements map was changed
\* afterwards, so that it differs from the copy held by every entry.
C29_Witness ==
    /\ ~pristine
    /\ lastOp.op \in RecordedOps
    /\ lastOp.ok
    /\ Len(history) >= 2
    /\ \A n \in 1..Len(history) : JsonCloneElements(elements) # history[n].state.elements

\* C21: once the unload listener has called stopAutoSave(), no tick of an
\* auto-save interval calls saveSession (a tick calls it when isDirty is
\* true).
C21_NoTickAfterTeardown ==
    [][(tornDown /\ lastOp'.op = "autoSaveTick") => ~isDirty]_vars

\* The document with every edit made to the editable regions so far.
EditedDocument(w) == updateSessionDataFromDOM(w).sessionPages

\* C22: the body of every PUT and of every PDF export request is the
\* document as updateSessionDataFromDOM gives it at the time of sending: it
\* holds the latest content of every editable region.
C22_SentDocumentIsCurrent ==
    [][/\ Len(inflight') > Len(inflight)
              => inflight'[Len(inflight')].body = EditedDocument(World')
       /\ lastOp'.exported => exportRequest' = EditedDocument(World')]_vars

\* The order in which loadSession() is to try its sources.
SourceOrder == <<"opener", "cache", "backend">>

SourceRank(s) == CHOOSE i \in 1..Len(SourceOrder) : SourceOrder[i] = s

\* C23: a load uses the first source, in the order opener handoff, local
\* cache, backend, that yields data and looks at no source after it, and
\* when a source was used loadedFromWindowOpener is true exactly when that
\* source was the handoff.
C23_FirstSourceWins ==
    [][lastOp'.load # <<>> =>
          LET l == lastOp'.load[1]
              yielding == {s \in Sources : l.available[s]}
          IN /\ IF yielding = {} THEN l.used = "none"
                ELSE /\ l.used \in yielding
                     /\ \A s \in yielding : SourceRank(l.used) <= SourceRank(s)
             /\ l.consulted = {s \in Sources : \A y \in yielding : SourceRank(s) <= SourceRank(y)}
             /\ l.used # "none" => (loadedFromWindowOpener' = (l.used = "opener"))]_vars

\* A load took the handoff while the local cache held the session too.
C23_Witness ==
    /\ lastOp.load # <<>>
    /\ lastOp.load[1].used = "opener"
    /\ lastOp.load[1].available["cache"]
    /\ lastOp.load[1].consulted = {"opener"}
    /\ loadedFromWindowOpener

\* The load has come to an end the user can work from: the overlay is
\* closed and either the document is on the canvas or the error modal
\* offers a retry.
LoadSettled == ~loadingOverlay /\ (errorModal \/ (sessionPages # <<>> /\ dom # <<>>))

\* C24: every load, one whose backend fetch never answers included, closes
\* the loading overlay in the end and leaves the editor with a document (or
\* with the error of a failed load).
C24_LoadEndsWithDocument == <>LoadSettled

\* The steps at which the descriptions are complete and loadSession() goes
\* on to its end.
LoadOps == {"loadSession", "fetchResolved", "generationResolved"}

\* The description a content page is to end with, given what the session
\* stored for it and how its request, if any, was answered.
ExpectedDescription(page, request) ==
    IF page.description = "existing" THEN "existing"
    ELSE IF request.outcome = "text" THEN "generated"
    ELSE getDefaultDescription(page.type)

\* C25: when the descriptions are complete every content page has a
\* non-empty entry: its own description when that is longer than 50
\* characters, otherwise the generated text when its request succeeded,
\* otherwise the default for its type; and exactly the content pages without
\* such a description were requested, once each.
C25_DescriptionsComplete ==
    [][(lastOp'.op \in LoadOps /\ lastOp'.ok /\ loadPhase' = "idle") =>
          /\ \A i \in 1..Len(sessionPages') :
                 LET page == sessionPages'[i]
                 IN page.type # "cover" =>
                        /\ pageDescriptions'[page.id] # ""
                        /\ pageDescriptions'[page.id]
                               = ExpectedDescription(page, generation'[page.id])
          /\ \A p \in PageIds :
                 generation'[p].requests =
                     IF \E i \in 1..Len(sessionPages') :
                            /\ sessionPages'[i].id = p
                            /\ sessionPages'[i].type # "cover"
                            /\ sessionPages'[i].description # "existing"
                     THEN 1 ELSE 0]_vars

\* The descriptions are complete after one request was answered with text
\* and another, for a garden page, failed.
C25_Witness ==
    /\ lastOp.op = "generationResolved"
    /\ loadPhase = "idle"
    /\ \E p, q \in PageIds :
           /\ generation[p].outcome = "failed" /\ pageDescriptions[p] = "default garden"
           /\ generation[q].outcome = "text" /\ pageDescriptions[q] = "generated"

\* The orders in which the requests of the pages in S can be answered.
CompletionOrders(S) ==
    {order \in [1..Cardinality(S) -> S] :
        \A i, j \in 1..Cardinality(S) : i # j => order[i] # order[j]}

\* The pending requests are answered in the order given, each with the
\* outcome fixed for its page.
RECURSIVE ResolveAll(_, _, _)
ResolveAll(w, order, outcomes) ==
    IF order = <<>> THEN w
    ELSE ResolveAll(generationResolved(w, Head(order), outcomes[Head(order)]),
                    Tail(order), outcomes)

\* C26: with the outcome of every pending request fixed, the descriptions
\* the editor ends with are the same in whatever order the requests are
\* answered.
C26_CompletionOrderIrrelevant ==
    \A outcomes \in [Pending(World) -> GenerationOutcomes] :
        \A a, b \in CompletionOrders(Pending(World)) :
            ResolveAll(World, a, outcomes).pageDescriptions
                = ResolveAll(World, b, outcomes).pageDescriptions

\* Two requests are pending, for pages of different types.
C26_Witness ==
    /\ loadPhase = "generating"
    /\ \E p, q \in Pending(World) : generation[p].type # generation[q].type

\* C27: skip-generation, invoked while requests are pending, ends the wait:
\* the overlay closes, the description of a page whose request was answered
\* (or that needed none) stays as it is, every page whose request is still
\* pending gets the default for its type, and no answer that arrives
\* afterwards changes a description.
C27_SkipFallsBackToDefaults ==
    [][/\ lastOp'.op = "skipGeneration" =>
              /\ ~loadingOverlay'
              /\ \A p \in PageIds :
                     pageDescriptions'[p] =
                         IF p \in Pending(World)
                         THEN getDefaultDescription(generation[p].type)
                         ELSE pageDescriptions[p]
       /\ (skipInvoked /\ lastOp'.op = "generationResolved") =>
              pageDescriptions' = pageDescriptions]_vars

\* C30: calculateSnap returns the same object for the same element,
\* proposed position, canvas, sibling elements, configuration and on/off
\* switch, whatever calls the engine has served before: the call repeated
\* at once returns what the first returned, and so does the call on an
\* engine that has served none.
C30_SnapRepeatable ==
    snapCanvas # <<>> =>
        \A element \in SnapElementIds : \A newX \in SnapXs : \A newY \in SnapYs :
            LET first == calculateSnap(smartGuides, snapCanvas, element, newX, newY)
                again == calculateSnap(first.engine, snapCanvas, element, newX, newY)
                fresh == calculateSnap([smartGuides EXCEPT !.activeElement = 0],
                                       snapCanvas, element, newX, newY)
            IN again.result = first.result /\ fresh.result = first.result

\* A drag of one element was snapped to a sibling that the call before had
\* made the active element.
C30_Witness ==
    /\ snapCall # <<>>
    /\ snapCall[1].activeBefore \notin {0, snapCall[1].element}
    /\ snapCanvas[snapCall[1].activeBefore].visible
    /\ snapCall[1].result.guides # <<>>
    /\ snapCall[1].result.snappedX
    /\ snapCall[1].result.x = snapCanvas[snapCall[1].activeBefore].left
    /\ snapCall[1].result.x # snapCall[1].newX

\* The boxes a dragged element may align with: the canvas and, when
\* snapToElements is set, every other element of the canvas that is laid
\* out.
AlignmentTargets(cfg, c, element) ==
    {getCanvasSnapPoints}
        \cup (IF cfg.snapToElements
              THEN {getElementSnapPoints(c, el) :
                        el \in {e \in SnapElementIds : e # element /\ c[e].visible}}
              ELSE {})

\* The positions of the X axis that align an edge of a box `width` wide,
\* proposed at newX, with the same edge of a target within the threshold,
\* and those that align it with the opposite edge.
SameEdgeX(cfg, targets, newX, width) ==
    {t.left : t \in {u \in targets : Abs(newX - u.left) <= cfg.snapThreshold}}
        \cup {t.right - width :
                 t \in {u \in targets : Abs(newX + width - u.right) <= cfg.snapThreshold}}

OppositeEdgeX(cfg, targets, newX, width) ==
    {t.right : t \in {u \in targets : Abs(newX - u.right) <= cfg.snapThreshold}}
        \cup {t.left - width :
                 t \in {u \in targets : Abs(newX + width - u.left) <= cfg.snapThreshold}}

\* C31: on the X axis, whenever a target offers a same-edge alignment within
\* the threshold the call returns a same-edge snap, and it returns a centre
\* snap only when no target offers an edge alignment.
C31_EdgeBeforeCenter ==
    [][(snapCall' # snapCall /\ smartGuides.isEnabled /\ smartGuides.canvas) =>
          LET call == snapCall'[1]
              cfg == smartGuides.CONFIG
              width == snapCanvas[call.element].width
              targets == AlignmentTargets(cfg, snapCanvas, call.element)
              sameEdge == SameEdgeX(cfg, targets, call.newX, width)
              oppositeEdge == OppositeEdgeX(cfg, targets, call.newX, width)
              centred == \E i \in 1..Len(call.result.guides) :
                             /\ call.result.guides[i].type = "vertical"
                             /\ call.result.guides[i].isCenter
          IN /\ sameEdge # {} =>
                    call.result.snappedX /\ ~centred /\ call.result.x \in sameEdge
             /\ centred => sameEdge \cup oppositeEdge = {}]_vars

\* m is a multiple of the grid size nearest to n.
NearestGridMultiple(cfg, n, m) == m % cfg.gridSize = 0 /\ 2 * Abs(m - n) <= cfg.gridSize

\* What one axis of a result may be for the candidate coordinate given.
AxisWithinContract(cfg, candidate, returned, snapped) ==
    IF snapped THEN Abs(returned - candidate) <= cfg.snapThreshold
    ELSE IF cfg.snapToGrid THEN NearestGridMultiple(cfg, candidate, returned)
    ELSE returned = candidate

\* C32: for every call the engine may be given, an axis that snapped is
\* moved by at most snapThreshold, an axis that did not is the candidate
\* itself or, with grid snapping, the grid multiple nearest to it, and a
\* disabled engine or one without canvas returns the candidate and no guide.
C32_SnapWithinThreshold ==
    snapCanvas # <<>> =>
        \A element \in SnapElementIds : \A newX \in SnapXs : \A newY \in SnapYs :
            LET r == calculateSnap(smartGuides, snapCanvas, element, newX, newY).result
                cfg == smartGuides.CONFIG
            IN IF ~smartGuides.isEnabled \/ ~smartGuides.canvas
               THEN r = [x |-> newX, y |-> newY, guides |-> <<>>]
               ELSE /\ AxisWithinContract(cfg, newX, r.x, r.snappedX)
                    /\ AxisWithinContract(cfg, newY, r.y, r.snappedY)

\* With grid snapping on, a call snapped the right edge of the dragged box
\* to the right edge of the canvas and rounded the other axis to the grid.
C32_Witness ==
    /\ snapCall # <<>>
    /\ smartGuides.isEnabled /\ smartGuides.CONFIG.snapToGrid
    /\ snapCall[1].result.snappedX
    /\ snapCall[1].result.x = SnapCanvasSize - SnapElementSize
    /\ snapCall[1].result.x # snapCall[1].newX
    /\ ~snapCall[1].result.snappedY
    /\ snapCall[1].result.y # snapCall[1].newY

\* C33: the deferred save of an auto-generation issues a PUT that carries
\* the generated pages.
C33_GeneratedPagesSaved ==
    [][lastOp'.op = "autoGeneratedSave" =>
          /\ Len(inflight') = Len(inflight) + 1
          /\ inflight'[Len(inflight')].body = sessionPages'
          /\ Len(sessionPages') = Len(GeneratedPages)]_vars

\* C34: when the only save in flight succeeds while the document holds an
\* edit made after its payload was serialized, isDirty is still true, so
\* that a later save sends the edit.
C34_EditDuringSaveKept ==
    [][(/\ lastOp'.op = "saveSucceeded"
        /\ Len(inflight) = 1
        /\ isDirty
        /\ EditedDocument(World) # inflight[1].body) => isDirty']_vars

\* C35: the entry a recorded action pushes holds the elements map as the
\* action left it; the entry of 'add element' lists the element added.
C35_SnapshotAfterAction ==
    [][(lastOp'.op \in RecordedOps \cup {"dropElement"} /\ lastOp'.ok /\ lastOp'.pushes = 1)
          => history'[historyIndex' + 1].state.elements = JsonCloneElements(elements')]_vars

\* selectedElements is empty when selectedElement is null and holds exactly
\* selectedElement otherwise, and a selected element is a node of a page's
\* canvas.
SelectionOnCanvas ==
    /\ selectedElements = selectedElement
    /\ selectedElement # <<>> =>
           selectedElement[1].live /\ Attached(dom, selectedElement[1].id)

\* The operations on the selection and the canvas that C36 names.
SelectionOps == {"selectElement", "deselect", "paste", "delete", "undo", "redo"}

\* C36: a select, paste, delete, undo or redo leaves the selection as
\* above when it found it so.
C36_SelectionKept ==
    [][(SelectionOnCanvas /\ lastOp'.op \in SelectionOps) => SelectionOnCanvas']_vars

\* C37: reading a rendered page back without an edit in between leaves its
\* title and its content fields as they were, and reading it back a second
\* time changes nothing.
C37_ExtractInvertsRender ==
    [][(roundTrip # <<>> /\ roundTrip' # roundTrip) =>
          /\ roundTrip'[1].page.title = roundTrip[1].page.title
          /\ roundTrip'[1].page.content = roundTrip[1].page.content]_vars

\* C38: once undo() or redo() has raised isUndoRedo, the flag returns to
\* false, in the branch that rebuilds the pages and in the branch that only
\* puts their content back, provided that pending timers fire.
C38_UndoRedoSettles == isUndoRedo ~> ~isUndoRedo

\* The settle step of a restore that rebuilt the pages has run and lowered
\* the flag.
C38_Witness ==
    /\ lastOp.op = "settleSelect"
    /\ ~isUndoRedo
    /\ timers = <<>>

\* C39: whatever the id of a page, a number or a string, a layout, a photo
\* gap or a stacking preset chosen for it in the picker is stored under the
\* key the renderer reads for that page, and the page is rendered anew, so
\* that it shows the choice.
C39_PreferenceStoredAndShown ==
    LET s == layoutState
        c == s.choice
        key == LayoutPageIds[c.page].text
    IN /\ c.control = "layout" =>
              s.pageLayouts[key] = c.layout /\ s.shown[c.page].layout = c.layout
       /\ c.control = "gap" =>
              s.photoGaps[key] = c.gap /\ s.shown[c.page].gap = c.gap
       /\ c.control = "preset" =>
              s.photoStacking[key] = c.preset /\ s.shown[c.page].stacking = c.preset

\* C40: duplicateCurrentPage() puts a copy of the current page, under an id
\* no page has, right after the original, so that there is one page more
\* and every other page is as before, and sets isDirty; its deferred step
\* then records one 'duplicate page' snapshot of the document with the
\* copy. Without a current page, or with one that is not among the pages,
\* it changes nothing.
C40_PageDuplicated ==
    [][/\ (lastOp'.op = "duplicatePage" /\ lastOp'.ok) =>
              LET i == PageIndexOf(sessionPages, currentPage)
              IN /\ Len(sessionPages') = Len(sessionPages) + 1
                 /\ \A j \in 1..Len(sessionPages) :
                        sessionPages'[IF j <= i THEN j ELSE j + 1] = sessionPages[j]
                 /\ sessionPages'[i + 1] =
                        [sessionPages[i] EXCEPT !.id = sessionPages'[i + 1].id]
                 /\ \A j \in 1..Len(sessionPages) :
                        sessionPages[j].id # sessionPages'[i + 1].id
                 /\ isDirty'
       /\ (lastOp'.op = "duplicatePage" /\ ~lastOp'.ok) =>
              UNCHANGED <<sessionPages, dom, isDirty, history, historyIndex, timers>>
       /\ lastOp'.op = "duplicateSnapshot" =>
              /\ lastOp'.pushes = 1
              /\ history'[historyIndex' + 1].action = "duplicate page"
              /\ history'[historyIndex' + 1].state.sessionPages = sessionPages']_vars

====
